---- MODULE Spec2Model ----
(***************************************************************************)
(* Servo controllers of raspberry_projects.                                *)
(*                                                                         *)
(* Each script of the repository is an independent program; the module     *)
(* holds one state machine per script, each over its own variables:        *)
(*   uc_*    controllers/unified_controller/unified_controller.py          *)
(*   v11_*   controllers/xbox_controller/xbox_controller_reader_v11.py     *)
(*   v8_*    controllers/xbox_controller/xbox_controller_reader_v8.py      *)
(*   best_*  gpio/servo_controller_web_ui/servo_controller_best.py         *)
(*   j_*     the pure conversion joystick_to_pwm, on its whole input range *)
(* A specification of one program leaves the other programs' variables     *)
(* untouched.                                                              *)
(*                                                                         *)
(* Numbers.  The scripts compute angles and pulses in Python floats and    *)
(* truncate with int().  On every input the model draws, the double        *)
(* results equal the exact rational results truncated toward zero, so the  *)
(* conversions are modelled with Trunc over integers.  servo_speed is a    *)
(* float that moves in steps of 0.1; the unified and v11 scripts only      *)
(* compare and display it, and it is modelled in integer tenths.           *)
(* servo_controller_best.py multiplies by it: there the model keeps the    *)
(* tenths and on which side of the decimal the double lies.                *)
(***************************************************************************)
EXTENDS Integers, Sequences, FiniteSets, TLC

VARIABLES
    script,               \* the script that runs
    focus,                \* the channel whose stick, hold button and sensor are exercised
    \* unified_controller.py
    uc_controller_type,   \* controller_type, set once by find_controller
    uc_hold_state,        \* hold_state
    uc_lock_state,        \* lock_state
    uc_servo_positions,   \* servo_positions
    uc_servo_speed,       \* servo_speed, in tenths
    uc_last_activity,     \* last_activity, in seconds
    uc_last_stick,        \* history: <<t>> once a stick event was received, at time t
    uc_now,               \* time.time(), in seconds
    uc_event,             \* the event the loop handled last
    uc_pwm_cmds,          \* pwm.set_pwm calls made while handling uc_event
    \* xbox_controller_reader_v11.py
    v11_hold_state,       \* hold_state
    v11_lock_state,       \* lock_state
    v11_servo_positions,  \* servo_positions
    v11_servo_speed,      \* servo_speed, in tenths
    v11_event,            \* the event the loop handled last
    v11_pwm_cmds,         \* pwm.set_pwm calls made while handling v11_event
    \* xbox_controller_reader_v8.py
    v8_hold_state,        \* hold_state
    v8_global_hold,       \* global_hold
    v8_calibration_mode,  \* calibration_mode
    v8_servo_positions,   \* servo_positions
    v8_event,             \* the event the loop handled last
    v8_pwm_cmds,          \* pwm.set_pwm calls made while handling v8_event
    \* servo_controller_best.py
    best_hold_state,      \* hold_state
    best_servo_positions, \* servo_positions
    best_servo_speed,     \* servo_speed, rounded to tenths
    best_speed_below,     \* whether the double servo_speed lies below best_servo_speed / 10
    best_op,              \* the operation that ran last: a controller event or a POST
    best_pwm_cmds,        \* pwm.set_pwm calls made by best_op
    \* joystick_to_pwm
    j_value,              \* the argument
    j_angle,              \* the angles returned by the unified, v11 and best scripts
    j_pwm_value,          \* the pulses they returned
    j_done,               \* whether the call was made
    \* CSV playback
    csv_file,             \* the CSV file
    csv_angles,           \* angles_list, as read_angles_from_csv returned it
    csv_pc,               \* where the playback stands: "start", "play" or "done"
    csv_row,              \* the row of angles_list the loop plays next
    csv_pwm_cmds,         \* pwm.set_pwm calls made so far
    \* servo_controller_best.py, its threads interleaved
    thr,                  \* of each thread: where it stands in move_servo, and its locals
    \* servo_controller_best.py, the keyboard
    best_q_press_count,   \* q_press_count
    best_last_q_time,     \* last_q_time, in tenths of a second
    kbd_now,              \* time.time(), in tenths of a second
    kbd_pc,               \* the loop that reads the keyboard, "exited" after exit_handler
    kbd_key,              \* history: the key read last
    kbd_prev_q,           \* history: <<t>> once a 'q' was read, at time t
    \* servo_controller_best.py, the way out
    ex_pc,                \* of the main thread and the controller thread: where it stands
    ex_process,           \* "running" or "terminated"
    ex_all_off,           \* history: pwm.set_all_pwm(0, 0) was called
    ex_pwm_after,         \* history: pwm.set_pwm was called after it
    \* servo_controller_alt.py
    alt_servo_locked,     \* servo_locked
    alt_servo_angles,     \* servo_angles
    alt_duty_cycle,       \* pca.channels[c].duty_cycle
    alt_main,             \* where the main thread stands
    alt_event,            \* history: the event the controller thread handled last
    \* servo_controller_best.py, the log
    log_data,             \* log_data: of each event, the thread that appended it
    log_file,             \* what the last json.dump wrote to LOG_FILE
    log_pc,               \* of each thread: where it stands in log_event
    \* servo_controller_best.py, the 'speed' command in a handler thread
    spd_pc                \* where the handler stands: "idle" or "assigned"

ucVars == <<uc_controller_type, uc_hold_state, uc_lock_state, uc_servo_positions,
            uc_servo_speed, uc_last_activity, uc_last_stick, uc_now, uc_event, uc_pwm_cmds>>

v11Vars == <<v11_hold_state, v11_lock_state, v11_servo_positions, v11_servo_speed,
             v11_event, v11_pwm_cmds>>

v8Vars == <<v8_hold_state, v8_global_hold, v8_calibration_mode, v8_servo_positions,
            v8_event, v8_pwm_cmds>>

bestVars == <<best_hold_state, best_servo_positions, best_servo_speed, best_speed_below,
              best_op, best_pwm_cmds>>

jVars == <<j_value, j_angle, j_pwm_value, j_done>>

csvVars == <<csv_file, csv_angles, csv_pc, csv_row, csv_pwm_cmds>>

\* The variables of what runs beside the four controller scripts.
thrVars == <<thr>>

kbdVars == <<best_q_press_count, best_last_q_time, kbd_now, kbd_pc, kbd_key, kbd_prev_q>>

exitVars == <<ex_pc, ex_process, ex_all_off, ex_pwm_after>>

\* The variables of the models that follow the keyboard's.
altVars == <<alt_servo_locked, alt_servo_angles, alt_duty_cycle, alt_main, alt_event>>

logVars == <<log_data, log_file, log_pc>>

spdVars == <<spd_pc>>

extraVars == <<exitVars, altVars, logVars, spdVars>>

sideVars == <<csvVars, thrVars, kbdVars, extraVars>>

vars == <<script, focus, ucVars, v11Vars, v8Vars, bestVars, jVars, sideVars>>

---------------------------------------------------------------------------
(* Shared constants and helpers *)

SERVO_MIN == 150
SERVO_MAX == 600
SERVO_RANGE == 180
SERVO_CHANNELS == 0 .. 3

\* Seconds the model's clock may reach.
MaxTime == 2

\* int(n / d) of Python for d > 0: truncation toward zero.
Trunc(n, d) == IF n >= 0 THEN n \div d ELSE -((-n) \div d)

Max(a, b) == IF a >= b THEN a ELSE b
Min(a, b) == IF a <= b THEN a ELSE b

\* evdev.ecodes used by the scripts
EV_KEY == 1
EV_ABS == 3
BTN_SOUTH == 304
BTN_EAST == 305
BTN_NORTH == 307
BTN_WEST == 308
BTN_TL == 310
BTN_TR == 311
BTN_SELECT == 314
BTN_DPAD_UP == 544
BTN_DPAD_DOWN == 545
BTN_DPAD_LEFT == 546
BTN_DPAD_RIGHT == 547
BTN_TRIGGER_HAPPY1 == 704
KEY_UP == 103
KEY_LEFT == 105
KEY_RIGHT == 106
KEY_DOWN == 108
ABS_X == 0
ABS_Y == 1
ABS_Z == 2
ABS_RX == 3
ABS_RY == 4
ABS_RZ == 5

NoEvent == [type |-> 0, code |-> 0, value |-> 0]
\* A POST body without any key, and the operation before the first one.
NoCommand == [servo |-> <<>>, all |-> <<>>, hold |-> <<>>, speed |-> <<>>]
NoOp == [src |-> "none", ev |-> NoEvent, cmd |-> NoCommand]

\* Stick positions the model feeds: both ends and the centre.
JoyValues == {-32767, 0, 32767}
\* D-pad hat axis values.
HatValues == {-1, 0, 1}
\* Motion-sensor readings the model feeds (centre 127, range 254).
MotionValues == {0, 254}
\* Key event values: release, press.
KeyValues == {0, 1}

Abs(code, value) == [type |-> EV_ABS, code |-> code, value |-> value]
Key(code, value) == [type |-> EV_KEY, code |-> code, value |-> value]

---------------------------------------------------------------------------
(* unified_controller.py *)

\* PWM_AVAILABLE and pwm: the PCA9685 was imported and initialised.
uc_PWM == TRUE

\* The pulse of an angle, as move_all_servos and run_csv_mode compute it.
uc_angle_pulse(angle) ==
    Trunc(SERVO_MIN * SERVO_RANGE + angle * (SERVO_MAX - SERVO_MIN), SERVO_RANGE)

\* joystick_to_pwm rounding the angle down instead of toward zero.
uc_joystick_to_pwm_floor(value) ==
    LET angle == ((value + 32767) * SERVO_RANGE) \div 65534
    IN  [pwm_value |-> uc_angle_pulse(angle), angle |-> angle]

uc_joystick_to_pwm(value) ==
    LET angle == Trunc((value + 32767) * SERVO_RANGE, 65534)
    IN  [pwm_value |-> uc_angle_pulse(angle), angle |-> angle]

uc_accelerometer_to_pwm(value, center, range) ==
    LET \* ((value - center + range/2) / range) * SERVO_RANGE, as a fraction over 2*range
        num == (2 * (value - center) + range) * SERVO_RANGE
        normalized2 == Max(0, Min(SERVO_RANGE * 2 * range, num))
        angle == Trunc(normalized2, 2 * range)
    IN  [pwm_value |-> uc_angle_pulse(angle), angle |-> angle]

\* What a move leaves: the positions, the PWM commands it issued, and whether
\* it ran past its guard (and so set last_activity).
uc_NoMove(pos) == [pos |-> pos, cmds |-> <<>>, moved |-> FALSE]

uc_Cmd(channel, pulse) == IF uc_PWM THEN << <<channel, pulse>> >> ELSE <<>>

\* move_servo without the lock test.
uc_move_servo_unlocked(channel, value) ==
    IF uc_hold_state[channel]
    THEN uc_NoMove(uc_servo_positions)
    ELSE LET r == uc_joystick_to_pwm(value)
         IN  [pos |-> [uc_servo_positions EXCEPT ![channel] = r.angle],
              cmds |-> uc_Cmd(channel, r.pwm_value),
              moved |-> TRUE]

uc_move_servo(channel, value) ==
    IF uc_lock_state \/ uc_hold_state[channel]
    THEN uc_NoMove(uc_servo_positions)
    ELSE LET r == uc_joystick_to_pwm(value)
         IN  [pos |-> [uc_servo_positions EXCEPT ![channel] = r.angle],
              cmds |-> uc_Cmd(channel, r.pwm_value),
              moved |-> TRUE]

uc_move_servo_accel(channel, value, center, range) ==
    IF uc_lock_state \/ uc_hold_state[channel]
    THEN uc_NoMove(uc_servo_positions)
    ELSE LET r == uc_accelerometer_to_pwm(value, center, range)
         IN  [pos |-> [uc_servo_positions EXCEPT ![channel] = r.angle],
              cmds |-> uc_Cmd(channel, r.pwm_value),
              moved |-> TRUE]

\* move_all_servos from positions pos (the calibration sequence calls it
\* three times in a row).
uc_move_all_servos(pos, angle) ==
    IF uc_lock_state
    THEN uc_NoMove(pos)
    ELSE [pos |-> [c \in SERVO_CHANNELS |-> angle],
          cmds |-> uc_Cmd(0, uc_angle_pulse(angle)) \o uc_Cmd(1, uc_angle_pulse(angle))
                   \o uc_Cmd(2, uc_angle_pulse(angle)) \o uc_Cmd(3, uc_angle_pulse(angle)),
          moved |-> TRUE]

\* The other scripts do not run.
UcOthers == UNCHANGED <<v11Vars, v8Vars, bestVars, jVars, sideVars>>

UcInit ==
    /\ uc_controller_type \in {"PS3", "Xbox"}
    /\ uc_hold_state = [c \in SERVO_CHANNELS |-> FALSE]
    /\ uc_lock_state = FALSE
    /\ uc_servo_positions = [c \in SERVO_CHANNELS |-> 90]
    /\ uc_servo_speed = 10
    /\ uc_last_activity = 0
    /\ uc_last_stick = <<>>
    /\ uc_now = 0
    /\ uc_event = NoEvent
    /\ uc_pwm_cmds = <<>>

\* The stick axis, the hold button and the motion-sensor axis of a channel.
UcStickCode(channel) == channel
UcHoldCode(channel) ==
    CASE channel = 0 -> BTN_SOUTH [] channel = 1 -> BTN_EAST [] channel = 2 -> BTN_WEST
      [] channel = 3 -> BTN_NORTH
UcSensorCode(channel) ==
    CASE channel = 0 -> 18 [] channel = 1 -> 19 [] channel = 2 -> 23 [] channel = 3 -> 24

UcAbsCodes == {0, 1, 2, 3, 16, 17, 18, 19, 20, 23, 24, 25}

UcKeyCodes == {291, 294, 295, 298, 299, BTN_SOUTH, BTN_EAST, BTN_NORTH, BTN_WEST,
               BTN_TL, BTN_TR, BTN_SELECT, BTN_DPAD_UP, BTN_DPAD_DOWN, BTN_DPAD_LEFT,
               BTN_DPAD_RIGHT}

\* Events the model feeds to run_controller_mode's loop: the per-channel
\* inputs of the focus channel, every button the controller's branch maps,
\* and one button it does not map (Select on a PS3, Start on the others).
UcEvents ==
    {Abs(UcStickCode(focus), v) : v \in JoyValues}
    \cup {Abs(c, v) : c \in {16, 17}, v \in HatValues}
    \cup {Abs(UcSensorCode(focus), v) : v \in MotionValues}
    \cup {Abs(20, 0)}
    \cup {Key(c, 1) : c \in IF uc_controller_type = "PS3"
                              THEN {291, 294, 295, 298, 299, BTN_SELECT}
                              ELSE {BTN_SELECT, BTN_TL, BTN_TR, BTN_DPAD_UP, BTN_DPAD_DOWN,
                                    BTN_DPAD_LEFT, BTN_DPAD_RIGHT, 291}}
    \cup {Key(UcHoldCode(focus), v) : v \in KeyValues}

UcAbsEvent(e) == e.type = EV_ABS /\ e.code \in UcAbsCodes
UcKeyEvent(e) == e.type = EV_KEY /\ e.code \in UcKeyCodes

\* The effect of one or more moves on the state.
UcApply(e, r, now) ==
    /\ uc_servo_positions' = r.pos
    /\ uc_pwm_cmds' = r.cmds
    /\ uc_last_activity' = IF r.moved THEN now ELSE uc_last_activity
    /\ uc_last_stick' = IF e.type = EV_ABS /\ e.code \in 0 .. 3 THEN <<uc_now>>
                        ELSE uc_last_stick
    /\ uc_now' = now
    /\ uc_event' = e

\* Left and right sticks: EV_ABS codes 0..3, whatever the controller type.
UcStick(e) ==
    /\ script = "unified" /\ UcOthers
    /\ UcAbsEvent(e) /\ e.code \in 0 .. 3
    /\ UcApply(e, uc_move_servo(e.code, e.value), uc_now)
    /\ UNCHANGED <<script, focus, uc_controller_type, uc_hold_state, uc_lock_state, uc_servo_speed>>

uc_speed_down(speed) == Max(speed - 1, 1)
\* The increase without its upper limit.
uc_speed_up_unlimited(speed) == speed + 1

uc_speed_up(speed) == Min(speed + 1, 20)

\* D-pad hat X (code 16): left slows down, right speeds up.
UcHatX(e) ==
    /\ script = "unified" /\ UcOthers
    /\ UcAbsEvent(e) /\ e.code = 16
    /\ uc_servo_speed' = IF e.value = -1 THEN uc_speed_down(uc_servo_speed)
                         ELSE IF e.value = 1 THEN uc_speed_up(uc_servo_speed)
                         ELSE uc_servo_speed
    /\ uc_event' = e
    /\ uc_pwm_cmds' = <<>>
    /\ UNCHANGED <<script, focus, uc_controller_type, uc_hold_state, uc_lock_state, uc_servo_positions,
                   uc_last_activity, uc_last_stick, uc_now>>

\* D-pad hat Y (code 17): up centres all servos, down toggles the lock.
UcHatY(e) ==
    /\ script = "unified" /\ UcOthers
    /\ UcAbsEvent(e) /\ e.code = 17
    /\ IF e.value = -1
       THEN /\ UcApply(e, uc_move_all_servos(uc_servo_positions, 90), uc_now)
            /\ UNCHANGED uc_lock_state
       ELSE /\ uc_lock_state' = IF e.value = 1 THEN ~uc_lock_state ELSE uc_lock_state
            /\ UcApply(e, uc_NoMove(uc_servo_positions), uc_now)
    /\ UNCHANGED <<script, focus, uc_controller_type, uc_hold_state, uc_servo_speed>>

\* The channel a motion-sensor code drives.
UcSensorChannel(code) ==
    CASE code = 18 -> 0 [] code = 19 -> 1 [] code = 23 -> 2 [] code = 24 -> 3

\* SixAxis sensor codes of a PS3 controller; 20 and 25 only feed the display.
UcSixAxis(e) ==
    /\ script = "unified" /\ UcOthers
    /\ UcAbsEvent(e) /\ e.code \in {18, 19, 20, 23, 24, 25}
    /\ uc_controller_type = "PS3"
    /\ IF e.code \in {18, 19, 23, 24} /\ uc_now - uc_last_activity > 1
       THEN UcApply(e, uc_move_servo_accel(UcSensorChannel(e.code), e.value, 127, 254), uc_now)
       ELSE UcApply(e, uc_NoMove(uc_servo_positions), uc_now)
    /\ UNCHANGED <<script, focus, uc_controller_type, uc_hold_state, uc_lock_state, uc_servo_speed>>

UcPS3 == uc_controller_type = "PS3"

\* The channel whose hold flag a button toggles: Cross/A, Circle/B, Square/X,
\* Triangle/Y on either kind of controller.
UcHoldChannel(code) ==
    CASE code = BTN_SOUTH -> 0 [] code = BTN_EAST -> 1 [] code = BTN_WEST -> 2
      [] code = BTN_NORTH -> 3

\* A hold button that sets the flag instead of inverting it.
uc_set_hold(hold, channel) == [hold EXCEPT ![channel] = TRUE]

\* hold_state[channel] = not hold_state[channel]
uc_toggle_hold(hold, channel) == [hold EXCEPT ![channel] = ~@]

\* Press, release and repeat of the four hold buttons.
UcHoldEvents ==
    {Key(c, v) : c \in {BTN_SOUTH, BTN_EAST, BTN_WEST, BTN_NORTH}, v \in {0, 1, 2}}

UcHoldKey(e) ==
    /\ script = "unified" /\ UcOthers
    /\ UcKeyEvent(e) /\ e.value = 1
    /\ e.code \in {BTN_SOUTH, BTN_EAST, BTN_WEST, BTN_NORTH}
    /\ uc_hold_state' = uc_toggle_hold(uc_hold_state, UcHoldChannel(e.code))
    /\ uc_event' = e
    /\ uc_pwm_cmds' = <<>>
    /\ UNCHANGED <<script, focus, uc_controller_type, uc_lock_state, uc_servo_positions, uc_servo_speed,
                   uc_last_activity, uc_last_stick, uc_now>>

\* The calibration sequence ending on move_all_servos(180).
uc_calibrate_without_centre(pos) ==
    LET a == uc_move_all_servos(pos, 0)
        b == uc_move_all_servos(a.pos, 180)
    IN  [pos |-> b.pos, cmds |-> a.cmds \o b.cmds, moved |-> b.moved]

\* move_all_servos(0); sleep(1); move_all_servos(180); sleep(1); move_all_servos(90)
uc_calibrate(pos) ==
    LET a == uc_move_all_servos(pos, 0)
        b == uc_move_all_servos(a.pos, 180)
        c == uc_move_all_servos(b.pos, 90)
    IN  [pos |-> c.pos, cmds |-> a.cmds \o b.cmds \o c.cmds, moved |-> c.moved]

\* Start (PS3) or Select/Share (others): the calibration sweep.
UcCalibrate(e) ==
    /\ script = "unified" /\ UcOthers
    /\ UcKeyEvent(e) /\ e.value = 1
    /\ e.code = IF UcPS3 THEN 291 ELSE BTN_SELECT
    /\ UcApply(e, uc_calibrate(uc_servo_positions), Min(uc_now + 2, MaxTime))
    /\ UNCHANGED <<script, focus, uc_controller_type, uc_hold_state, uc_lock_state, uc_servo_speed>>

\* L1/R1 (PS3) or the shoulder buttons (others).
UcSpeedKey(e) ==
    /\ script = "unified" /\ UcOthers
    /\ UcKeyEvent(e) /\ e.value = 1
    /\ e.code \in (IF UcPS3 THEN {294, 295} ELSE {BTN_TL, BTN_TR})
    /\ uc_servo_speed' = IF e.code \in {294, BTN_TL} THEN uc_speed_down(uc_servo_speed)
                         ELSE uc_speed_up(uc_servo_speed)
    /\ uc_event' = e
    /\ uc_pwm_cmds' = <<>>
    /\ UNCHANGED <<script, focus, uc_controller_type, uc_hold_state, uc_lock_state, uc_servo_positions,
                   uc_last_activity, uc_last_stick, uc_now>>

\* The angle a move-all button asks for: L2/R2 (PS3), D-pad keys (others).
UcMoveAllAngle(code) ==
    IF UcPS3
    THEN CASE code = 298 -> 0 [] code = 299 -> 180
    ELSE CASE code = BTN_DPAD_RIGHT -> 180 [] code = BTN_DPAD_LEFT -> 0
           [] code = BTN_DPAD_UP -> 90

UcMoveAllKey(e) ==
    /\ script = "unified" /\ UcOthers
    /\ UcKeyEvent(e) /\ e.value = 1
    /\ e.code \in (IF UcPS3 THEN {298, 299}
                   ELSE {BTN_DPAD_RIGHT, BTN_DPAD_LEFT, BTN_DPAD_UP})
    /\ UcApply(e, uc_move_all_servos(uc_servo_positions, UcMoveAllAngle(e.code)), uc_now)
    /\ UNCHANGED <<script, focus, uc_controller_type, uc_hold_state, uc_lock_state, uc_servo_speed>>

\* D-pad down key of a non-PS3 controller toggles the lock.
UcLockKey(e) ==
    /\ script = "unified" /\ UcOthers
    /\ UcKeyEvent(e) /\ e.value = 1
    /\ ~UcPS3 /\ e.code = BTN_DPAD_DOWN
    /\ uc_lock_state' = ~uc_lock_state
    /\ uc_event' = e
    /\ uc_pwm_cmds' = <<>>
    /\ UNCHANGED <<script, focus, uc_controller_type, uc_hold_state, uc_servo_positions, uc_servo_speed,
                   uc_last_activity, uc_last_stick, uc_now>>

\* The key codes that act on a press, by controller type.
UcActiveKeys ==
    {BTN_SOUTH, BTN_EAST, BTN_WEST, BTN_NORTH}
    \cup (IF UcPS3 THEN {291, 294, 295, 298, 299}
          ELSE {BTN_SELECT, BTN_TL, BTN_TR, BTN_DPAD_RIGHT, BTN_DPAD_LEFT, BTN_DPAD_UP,
                BTN_DPAD_DOWN})

\* Every other event falls through the loop body: key releases, keys without
\* a mapping, sensor codes of a controller that is not a PS3.
UcIgnored(e) ==
    /\ script = "unified" /\ UcOthers
    /\ \/ UcKeyEvent(e) /\ (e.value # 1 \/ e.code \notin UcActiveKeys)
       \/ UcAbsEvent(e) /\ e.code \in {18, 19, 20, 23, 24, 25} /\ ~UcPS3
       \/ e.type \notin {EV_ABS, EV_KEY}
    /\ uc_event' = e
    /\ uc_pwm_cmds' = <<>>
    /\ UNCHANGED <<script, focus, uc_controller_type, uc_hold_state, uc_lock_state, uc_servo_positions,
                   uc_servo_speed, uc_last_activity, uc_last_stick, uc_now>>

\* A second passes between two events.
UcTick ==
    /\ script = "unified" /\ UcOthers
    /\ uc_now < MaxTime
    /\ uc_now' = uc_now + 1
    /\ UNCHANGED <<script, focus, uc_controller_type, uc_hold_state, uc_lock_state, uc_servo_positions,
                   uc_servo_speed, uc_last_activity, uc_last_stick, uc_event, uc_pwm_cmds>>

\* Every handler of the loop except the speed controls.
UcNext ==
    \/ UcTick
    \/ \E e \in UcEvents : UcStick(e)
    \/ \E e \in UcEvents : UcHatY(e)
    \/ \E e \in UcEvents : UcSixAxis(e)
    \/ \E e \in UcEvents : UcHoldKey(e)
    \/ \E e \in UcEvents : UcCalibrate(e)
    \/ \E e \in UcEvents : UcMoveAllKey(e)
    \/ \E e \in UcEvents : UcLockKey(e)
    \/ \E e \in UcEvents : UcIgnored(e)

\* The hold buttons of all four channels, pressed, released and repeating.
UcHoldNext ==
    \/ \E e \in UcHoldEvents : UcHoldKey(e)
    \/ \E e \in UcHoldEvents : UcIgnored(e)

\* The calibration button, with the handlers that set the lock and the hold
\* flags and the ones that move servos.
UcCalibrationNext ==
    \/ \E e \in UcEvents : UcCalibrate(e)
    \/ \E e \in UcEvents : UcHatY(e)
    \/ \E e \in UcEvents : UcLockKey(e)
    \/ \E e \in UcEvents : UcHoldKey(e)
    \/ \E e \in UcEvents : UcStick(e)
    \/ \E e \in UcEvents : UcMoveAllKey(e)

\* The speed controls, with the handlers that set the hold flags and the
\* lock.  No handler but UcHatX and UcSpeedKey reads or writes servo_speed.
UcSpeedNext ==
    \/ \E e \in UcEvents : UcHatX(e)
    \/ \E e \in UcEvents : UcSpeedKey(e)
    \/ \E e \in UcEvents : UcHoldKey(e)
    \/ \E e \in UcEvents : UcLockKey(e)

---------------------------------------------------------------------------
(* xbox_controller_reader_v11.py *)

v11_joystick_to_pwm(value) ==
    LET angle == Trunc((value + 32767) * 180, 65534)
    IN  [pwm_value |-> Trunc(SERVO_MIN * 180 + angle * (SERVO_MAX - SERVO_MIN), 180),
         angle |-> angle]

v11_NoMove(pos) == [pos |-> pos, cmds |-> <<>>]

v11_move_servo(channel, value) ==
    IF v11_lock_state
    THEN v11_NoMove(v11_servo_positions)
    ELSE LET r == v11_joystick_to_pwm(value)
         IN  [pos |-> [v11_servo_positions EXCEPT ![channel] = r.angle],
              cmds |-> << <<channel, r.pwm_value>> >>]

v11_move_all_servos(pos, angle) ==
    IF v11_lock_state
    THEN v11_NoMove(pos)
    ELSE LET p == Trunc(SERVO_MIN * 180 + angle * (SERVO_MAX - SERVO_MIN), 180)
         IN  [pos |-> [c \in SERVO_CHANNELS |-> angle],
              cmds |-> << <<0, p>>, <<1, p>>, <<2, p>>, <<3, p>> >>]

V11Init ==
    /\ v11_hold_state = [c \in SERVO_CHANNELS |-> FALSE]
    /\ v11_lock_state = FALSE
    /\ v11_servo_positions = (0 :> 53 @@ 1 :> 74 @@ 2 :> 41 @@ 3 :> 91)
    /\ v11_servo_speed = 10
    /\ v11_event = NoEvent
    /\ v11_pwm_cmds = <<>>

V11Others == UNCHANGED <<ucVars, v8Vars, bestVars, jVars, sideVars>>

\* The stick axis and the hold button of a channel.
V11StickCode(channel) ==
    CASE channel = 0 -> ABS_X [] channel = 1 -> ABS_Y [] channel = 2 -> ABS_RY
      [] channel = 3 -> ABS_RX
V11HoldCode(channel) ==
    CASE channel = 0 -> BTN_EAST [] channel = 1 -> BTN_SOUTH [] channel = 2 -> BTN_NORTH
      [] channel = 3 -> BTN_WEST

\* Events the model feeds to read_xbox_controller's loop: the stick and the
\* hold button of the focus channel, every other button the loop maps, and
\* two inputs it does not map (the left trigger axis, the D-pad up button).
V11Events ==
    {Abs(V11StickCode(focus), v) : v \in JoyValues}
    \cup {Abs(ABS_Z, 0)}
    \cup {Key(V11HoldCode(focus), v) : v \in KeyValues}
    \cup {Key(c, 1) : c \in {BTN_SELECT, BTN_TR, BTN_TL, KEY_RIGHT, KEY_LEFT, KEY_UP,
                             KEY_DOWN, BTN_DPAD_UP}}

V11Apply(e, r) ==
    /\ v11_servo_positions' = r.pos
    /\ v11_pwm_cmds' = r.cmds
    /\ v11_event' = e

V11Stick(e) ==
    /\ script = "v11" /\ V11Others
    /\ e.type = EV_ABS /\ e.code \in {ABS_X, ABS_Y, ABS_RY, ABS_RX}
    /\ LET channel == CHOOSE c \in SERVO_CHANNELS : V11StickCode(c) = e.code
       IN  V11Apply(e, v11_move_servo(channel, e.value))
    /\ UNCHANGED <<script, focus, v11_hold_state, v11_lock_state, v11_servo_speed>>

V11HoldKey(e) ==
    /\ script = "v11" /\ V11Others
    /\ e.type = EV_KEY /\ e.value = 1
    /\ e.code \in {BTN_SOUTH, BTN_EAST, BTN_NORTH, BTN_WEST}
    /\ LET channel == CHOOSE c \in SERVO_CHANNELS : V11HoldCode(c) = e.code
       IN  v11_hold_state' = [v11_hold_state EXCEPT ![channel] = ~@]
    /\ v11_event' = e
    /\ v11_pwm_cmds' = <<>>
    /\ UNCHANGED <<script, focus, v11_lock_state, v11_servo_positions, v11_servo_speed>>

\* move_all_servos(0); sleep(1); move_all_servos(180); sleep(1); move_all_servos(90)
v11_calibrate(pos) ==
    LET a == v11_move_all_servos(pos, 0)
        b == v11_move_all_servos(a.pos, 180)
        c == v11_move_all_servos(b.pos, 90)
    IN  [pos |-> c.pos, cmds |-> a.cmds \o b.cmds \o c.cmds]

V11Calibrate(e) ==
    /\ script = "v11" /\ V11Others
    /\ e = Key(BTN_SELECT, 1)
    /\ V11Apply(e, v11_calibrate(v11_servo_positions))
    /\ UNCHANGED <<script, focus, v11_hold_state, v11_lock_state, v11_servo_speed>>

v11_speed_up(speed) == Min(speed + 1, 20)
v11_speed_down(speed) == Max(speed - 1, 1)

V11SpeedKey(e) ==
    /\ script = "v11" /\ V11Others
    /\ e.type = EV_KEY /\ e.value = 1 /\ e.code \in {BTN_TR, BTN_TL}
    /\ v11_servo_speed' = IF e.code = BTN_TR THEN v11_speed_up(v11_servo_speed)
                          ELSE v11_speed_down(v11_servo_speed)
    /\ v11_event' = e
    /\ v11_pwm_cmds' = <<>>
    /\ UNCHANGED <<script, focus, v11_hold_state, v11_lock_state, v11_servo_positions>>

V11MoveAllAngle(code) ==
    CASE code = KEY_RIGHT -> 180 [] code = KEY_LEFT -> 0 [] code = KEY_UP -> 90

V11MoveAllKey(e) ==
    /\ script = "v11" /\ V11Others
    /\ e.type = EV_KEY /\ e.value = 1 /\ e.code \in {KEY_RIGHT, KEY_LEFT, KEY_UP}
    /\ V11Apply(e, v11_move_all_servos(v11_servo_positions, V11MoveAllAngle(e.code)))
    /\ UNCHANGED <<script, focus, v11_hold_state, v11_lock_state, v11_servo_speed>>

V11LockKey(e) ==
    /\ script = "v11" /\ V11Others
    /\ e = Key(KEY_DOWN, 1)
    /\ v11_lock_state' = ~v11_lock_state
    /\ v11_event' = e
    /\ v11_pwm_cmds' = <<>>
    /\ UNCHANGED <<script, focus, v11_hold_state, v11_servo_positions, v11_servo_speed>>

V11MappedKeys == {BTN_SOUTH, BTN_EAST, BTN_NORTH, BTN_WEST, BTN_SELECT, BTN_TR, BTN_TL,
                  KEY_RIGHT, KEY_LEFT, KEY_UP, KEY_DOWN}

\* Every other event falls through the loop body.
V11Ignored(e) ==
    /\ script = "v11" /\ V11Others
    /\ \/ e.type = EV_ABS /\ e.code \notin {ABS_X, ABS_Y, ABS_RY, ABS_RX}
       \/ e.type = EV_KEY /\ (e.value # 1 \/ e.code \notin V11MappedKeys)
       \/ e.type \notin {EV_ABS, EV_KEY}
    /\ v11_event' = e
    /\ v11_pwm_cmds' = <<>>
    /\ UNCHANGED <<script, focus, v11_hold_state, v11_lock_state, v11_servo_positions,
                   v11_servo_speed>>

\* Every handler of the loop except the speed controls.
V11Next ==
    \/ \E e \in V11Events : V11Stick(e)
    \/ \E e \in V11Events : V11HoldKey(e)
    \/ \E e \in V11Events : V11Calibrate(e)
    \/ \E e \in V11Events : V11MoveAllKey(e)
    \/ \E e \in V11Events : V11LockKey(e)
    \/ \E e \in V11Events : V11Ignored(e)

\* The calibration button, with the handlers that set the lock and the hold
\* flags and the ones that move servos.
V11CalibrationNext ==
    \/ \E e \in V11Events : V11Calibrate(e)
    \/ \E e \in V11Events : V11LockKey(e)
    \/ \E e \in V11Events : V11HoldKey(e)
    \/ \E e \in V11Events : V11Stick(e)
    \/ \E e \in V11Events : V11MoveAllKey(e)

\* The speed controls, with the handlers that set the hold flags and the
\* lock.  No handler but V11SpeedKey reads or writes servo_speed.
V11SpeedNext ==
    \/ \E e \in V11Events : V11SpeedKey(e)
    \/ \E e \in V11Events : V11HoldKey(e)
    \/ \E e \in V11Events : V11LockKey(e)

---------------------------------------------------------------------------
(* xbox_controller_reader_v8.py *)

v8_joystick_to_pwm(value) ==
    LET angle == Trunc((value + 32767) * 180, 65534)
    IN  [pwm_value |-> Trunc(SERVO_MIN * 180 + angle * (SERVO_MAX - SERVO_MIN), 180),
         angle |-> angle]

v8_move_servo(channel, value) ==
    IF ~v8_hold_state[channel] /\ ~v8_global_hold
    THEN LET r == v8_joystick_to_pwm(value)
         IN  [pos |-> [v8_servo_positions EXCEPT ![channel] = r.angle],
              cmds |-> << <<channel, r.pwm_value>> >>]
    ELSE [pos |-> v8_servo_positions, cmds |-> <<>>]

v8_move_all_servos(angle) ==
    LET p == Trunc(SERVO_MIN * 180 + angle * (SERVO_MAX - SERVO_MIN), 180)
    IN  [pos |-> [c \in SERVO_CHANNELS |-> angle],
         cmds |-> << <<0, p>>, <<1, p>>, <<2, p>>, <<3, p>> >>]

CENTER_POSITIONS == (0 :> 44 @@ 1 :> 76 @@ 2 :> 95 @@ 3 :> 52)

V8Init ==
    /\ v8_hold_state = [c \in SERVO_CHANNELS |-> FALSE]
    /\ v8_global_hold = FALSE
    /\ v8_calibration_mode = FALSE
    /\ v8_servo_positions = CENTER_POSITIONS
    /\ v8_event = NoEvent
    /\ v8_pwm_cmds = <<>>

V8Others == UNCHANGED <<ucVars, v11Vars, bestVars, jVars, sideVars>>

V8StickCode(channel) ==
    CASE channel = 0 -> ABS_X [] channel = 1 -> ABS_Y [] channel = 2 -> ABS_RX
      [] channel = 3 -> ABS_RY
V8HoldCode(channel) ==
    CASE channel = 0 -> BTN_SOUTH [] channel = 1 -> BTN_EAST [] channel = 2 -> BTN_NORTH
      [] channel = 3 -> BTN_WEST

\* Events the model feeds to read_xbox_controller's loop: the stick and the
\* hold button of the focus channel, every other button the loop maps, and
\* two inputs it does not map (the left trigger axis, the Select button).
V8Events ==
    {Abs(V8StickCode(focus), v) : v \in JoyValues}
    \cup {Abs(ABS_Z, 0)}
    \cup {Key(V8HoldCode(focus), v) : v \in KeyValues}
    \cup {Key(c, 1) : c \in {BTN_DPAD_UP, BTN_DPAD_DOWN, BTN_DPAD_LEFT, BTN_DPAD_RIGHT,
                             BTN_TRIGGER_HAPPY1, BTN_SELECT}}

V8Apply(e, r) ==
    /\ v8_servo_positions' = r.pos
    /\ v8_pwm_cmds' = r.cmds
    /\ v8_event' = e

V8Stick(e) ==
    /\ script = "v8" /\ V8Others
    /\ e.type = EV_ABS /\ e.code \in {ABS_X, ABS_Y, ABS_RX, ABS_RY}
    /\ LET channel == CHOOSE c \in SERVO_CHANNELS : V8StickCode(c) = e.code
       IN  V8Apply(e, v8_move_servo(channel, e.value))
    /\ UNCHANGED <<script, focus, v8_hold_state, v8_global_hold, v8_calibration_mode>>

V8HoldKey(e) ==
    /\ script = "v8" /\ V8Others
    /\ e.type = EV_KEY /\ e.value = 1
    /\ e.code \in {BTN_SOUTH, BTN_EAST, BTN_WEST, BTN_NORTH}
    /\ LET channel == CHOOSE c \in SERVO_CHANNELS : V8HoldCode(c) = e.code
       IN  v8_hold_state' = [v8_hold_state EXCEPT ![channel] = ~@]
    /\ v8_event' = e
    /\ v8_pwm_cmds' = <<>>
    /\ UNCHANGED <<script, focus, v8_global_hold, v8_calibration_mode, v8_servo_positions>>

\* D-pad up locks all servos, D-pad down unlocks them.
V8GlobalHoldKey(e) ==
    /\ script = "v8" /\ V8Others
    /\ e.type = EV_KEY /\ e.value = 1 /\ e.code \in {BTN_DPAD_UP, BTN_DPAD_DOWN}
    /\ v8_global_hold' = (e.code = BTN_DPAD_UP)
    /\ v8_event' = e
    /\ v8_pwm_cmds' = <<>>
    /\ UNCHANGED <<script, focus, v8_hold_state, v8_calibration_mode, v8_servo_positions>>

V8MoveAllKey(e) ==
    /\ script = "v8" /\ V8Others
    /\ e.type = EV_KEY /\ e.value = 1 /\ e.code \in {BTN_DPAD_LEFT, BTN_DPAD_RIGHT}
    /\ V8Apply(e, v8_move_all_servos(IF e.code = BTN_DPAD_LEFT THEN 0 ELSE 180))
    /\ UNCHANGED <<script, focus, v8_hold_state, v8_global_hold, v8_calibration_mode>>

\* enter_calibration
V8CalibrationKey(e) ==
    /\ script = "v8" /\ V8Others
    /\ e = Key(BTN_TRIGGER_HAPPY1, 1)
    /\ v8_calibration_mode' = ~v8_calibration_mode
    /\ v8_event' = e
    /\ v8_pwm_cmds' = <<>>
    /\ UNCHANGED <<script, focus, v8_hold_state, v8_global_hold, v8_servo_positions>>

V8MappedKeys == {BTN_SOUTH, BTN_EAST, BTN_WEST, BTN_NORTH, BTN_DPAD_UP, BTN_DPAD_DOWN,
                 BTN_DPAD_LEFT, BTN_DPAD_RIGHT, BTN_TRIGGER_HAPPY1}

V8Ignored(e) ==
    /\ script = "v8" /\ V8Others
    /\ \/ e.type = EV_ABS /\ e.code \notin {ABS_X, ABS_Y, ABS_RX, ABS_RY}
       \/ e.type = EV_KEY /\ (e.value # 1 \/ e.code \notin V8MappedKeys)
       \/ e.type \notin {EV_ABS, EV_KEY}
    /\ v8_event' = e
    /\ v8_pwm_cmds' = <<>>
    /\ UNCHANGED <<script, focus, v8_hold_state, v8_global_hold, v8_calibration_mode,
                   v8_servo_positions>>

V8Next ==
    \/ \E e \in V8Events : V8Stick(e)
    \/ \E e \in V8Events : V8HoldKey(e)
    \/ \E e \in V8Events : V8GlobalHoldKey(e)
    \/ \E e \in V8Events : V8MoveAllKey(e)
    \/ \E e \in V8Events : V8CalibrationKey(e)
    \/ \E e \in V8Events : V8Ignored(e)

---------------------------------------------------------------------------
(* servo_controller_best.py: each operation run to completion *)

\* An operation is the handling of one controller event by
\* read_xbox_controller or of one POST /control request by do_POST.  The
\* log (log_event), the status display and the 'q' key of the terminal touch
\* neither the servos nor the state the operations read, and are left out.

\* servo_speed is a double.  The model keeps its value rounded to tenths in
\* best_servo_speed, and in best_speed_below whether the double lies below
\* that decimal (0.7 and 0.1 + 0.1 + ... both do at times).  int(d * speed)
\* is then the exact quotient, or one less when the double lies below the
\* decimal and the exact product is an integer.
\* int(d * speed) rounding to the nearest integer instead of toward zero.
best_int_times_speed_rounded(d, speed, below, drop) ==
    (d * speed + 5) \div 10

best_int_times_speed(d, speed, below, drop) ==
    IF below /\ (d * speed) % 10 = 0 /\ drop
    THEN (d * speed) \div 10 - 1
    ELSE (d * speed) \div 10

\* The decimals n/10 whose nearest double lies below them.
BestDecimalBelow(tenths) == tenths \in {3, 6, 7, 12, 14, 17, 19}

best_joystick_to_pwm(value) ==
    LET angle == Trunc((value + 32767) * SERVO_RANGE, 65534)
    IN  [pwm_value |-> Trunc(SERVO_MIN * SERVO_RANGE + angle * (SERVO_MAX - SERVO_MIN),
                             SERVO_RANGE),
         angle |-> angle]

\* angle_to_pwm without the clamp to 0 .. 180.
best_angle_to_pwm_unclamped(angle) ==
    Trunc(SERVO_MIN * SERVO_RANGE + angle * (SERVO_MAX - SERVO_MIN), SERVO_RANGE)

best_angle_to_pwm(angle) ==
    LET clamped == Max(0, Min(180, angle))
    IN  Trunc(SERVO_MIN * SERVO_RANGE + clamped * (SERVO_MAX - SERVO_MIN), SERVO_RANGE)

AbsVal(x) == IF x >= 0 THEN x ELSE -x

\* The step without its cap at the distance.
best_step_uncapped(d, speed, below, drop) ==
    Max(1, best_int_times_speed(d, speed, below, drop))

\* The step without its floor of one degree.
best_step_unfloored(d, speed, below, drop) ==
    Min(d, best_int_times_speed(d, speed, below, drop))

\* The step of move_servo toward an angle at distance d > 0.
best_step(d, speed, below, drop) ==
    Max(1, Min(d, best_int_times_speed(d, speed, below, drop)))

\* move_servo on the machine state m = [pos, hold, speed, below, cmds];
\* drop chooses the rounding of int(d * servo_speed) where it is open.
best_move_servo(m, channel, value, is_joystick, drop) ==
    IF ~m.hold[channel]
    THEN LET v == IF is_joystick /\ (channel = 0 \/ channel = 3) THEN -value ELSE value
             target == IF is_joystick THEN best_joystick_to_pwm(v).angle ELSE v
             pwm0 == IF is_joystick THEN best_joystick_to_pwm(v).pwm_value
                     ELSE best_angle_to_pwm(v)
             current_angle == m.pos[channel]
             angle_diff == target - current_angle
             step == best_step(AbsVal(angle_diff), m.speed, m.below, drop)
             angle == IF AbsVal(angle_diff) > 0
                      THEN (IF angle_diff > 0 THEN current_angle + step
                            ELSE current_angle - step)
                      ELSE target
             pwm_value == IF AbsVal(angle_diff) > 0 THEN best_angle_to_pwm(angle) ELSE pwm0
         IN  [m EXCEPT !.pos[channel] = angle,
                       !.cmds = @ \o << <<channel, pwm_value>> >>]
    ELSE m

\* move_all_servos without the hold test.
best_move_all_servos_ignoring_hold(m, angle) ==
    LET pwm_value == best_angle_to_pwm(angle)
    IN  [m EXCEPT !.pos = [c \in SERVO_CHANNELS |-> angle],
                  !.cmds = @ \o [i \in 1 .. 4 |-> <<i - 1, pwm_value>>]]

\* move_all_servos: every channel that is not held, in channel order.
best_move_all_servos(m, angle) ==
    LET moved == {c \in SERVO_CHANNELS : ~m.hold[c]}
        pwm_value == best_angle_to_pwm(angle)
        calls == [i \in 1 .. 4 |-> <<i - 1, pwm_value>>]
    IN  [m EXCEPT !.pos = [c \in SERVO_CHANNELS |-> IF c \in moved THEN angle ELSE @[c]],
                  !.cmds = @ \o SelectSeq(calls, LAMBDA call : call[1] \in moved)]

BestInit ==
    /\ best_hold_state = [c \in SERVO_CHANNELS |-> FALSE]
    /\ best_servo_positions = [c \in SERVO_CHANNELS |-> 90]
    /\ best_servo_speed = 10
    /\ best_speed_below = FALSE
    /\ best_op = NoOp
    /\ best_pwm_cmds = <<>>

BestOthers == UNCHANGED <<ucVars, v11Vars, v8Vars, jVars, sideVars>>

\* The shared state as an operation finds it, with no PWM command issued yet.
BestMachine ==
    [pos |-> best_servo_positions, hold |-> best_hold_state, speed |-> best_servo_speed,
     below |-> best_speed_below, cmds |-> <<>>]

BestStore(m, op) ==
    /\ best_servo_positions' = m.pos
    /\ best_hold_state' = m.hold
    /\ best_servo_speed' = m.speed
    /\ best_speed_below' = m.below
    /\ best_pwm_cmds' = m.cmds
    /\ best_op' = op
    /\ UNCHANGED <<script, focus>>

BestStickCode(channel) ==
    CASE channel = 0 -> ABS_X [] channel = 1 -> ABS_Y [] channel = 2 -> ABS_RY
      [] channel = 3 -> ABS_RX
BestHoldCode(channel) ==
    CASE channel = 0 -> BTN_SOUTH [] channel = 1 -> BTN_WEST [] channel = 2 -> BTN_EAST
      [] channel = 3 -> BTN_NORTH

\* Trigger positions the model feeds: released and fully pressed.
TriggerValues == {0, 1023}

\* Stick positions the model feeds: the lowest 16-bit value, whose negation
\* on channels 0 and 3 exceeds 32767, the centre and the highest value.
BestJoyValues == {-32767 - 1, 0, 32767}

\* Events the model feeds to read_xbox_controller's loop.
BestEvents ==
    {Abs(BestStickCode(focus), v) : v \in BestJoyValues}
    \cup {Abs(c, v) : c \in {ABS_Z, ABS_RZ}, v \in TriggerValues}
    \cup {Key(BestHoldCode(focus), v) : v \in KeyValues}
    \cup {Key(BTN_SELECT, 1)}

\* The bumpers, which change servo_speed.
BestSpeedEvents == {Key(BTN_TL, 1), Key(BTN_TR, 1)}

Event(e) == [src |-> "event", ev |-> e, cmd |-> NoCommand]
Post(cmd) == [src |-> "post", ev |-> NoEvent, cmd |-> cmd]

\* Stick axes drive one servo each.
BestStick(e, drop) ==
    /\ script = "best" /\ BestOthers
    /\ e.type = EV_ABS /\ e.code \in {ABS_X, ABS_Y, ABS_RY, ABS_RX}
    /\ LET channel == CHOOSE c \in SERVO_CHANNELS : BestStickCode(c) = e.code
       IN  BestStore(best_move_servo(BestMachine, channel, e.value, TRUE, drop), Event(e))

\* The angle a trigger asks of all servos: the left one toward 0, the right
\* one toward 180.
best_trigger_angle(code, value) ==
    IF code = ABS_Z THEN Trunc((1023 - value) * 180, 1023)
    ELSE Trunc(value * 180, 1023)

BestTrigger(e) ==
    /\ script = "best" /\ BestOthers
    /\ e.type = EV_ABS /\ e.code \in {ABS_Z, ABS_RZ}
    /\ BestStore(best_move_all_servos(BestMachine, best_trigger_angle(e.code, e.value)),
                 Event(e))

BestHoldKey(e) ==
    /\ script = "best" /\ BestOthers
    /\ e.type = EV_KEY /\ e.value = 1
    /\ e.code \in {BTN_SOUTH, BTN_WEST, BTN_EAST, BTN_NORTH}
    /\ LET channel == CHOOSE c \in SERVO_CHANNELS : BestHoldCode(c) = e.code
       IN  BestStore([BestMachine EXCEPT !.hold[channel] = ~@], Event(e))

\* servo_speed = max(0.1, servo_speed - 0.1) and min(2.0, servo_speed + 0.1);
\* the sum of two doubles may fall on either side of the decimal, 0.1 itself
\* does not lie below it.
best_speed_down(speed) == Max(1, speed - 1)
best_speed_up(speed) == Min(20, speed + 1)

BestSpeedKey(e, below) ==
    /\ script = "best" /\ BestOthers
    /\ e.type = EV_KEY /\ e.value = 1 /\ e.code \in {BTN_TL, BTN_TR}
    /\ LET speed == IF e.code = BTN_TL THEN best_speed_down(best_servo_speed)
                    ELSE best_speed_up(best_servo_speed)
       IN  BestStore([BestMachine EXCEPT !.speed = speed, !.below = below /\ speed > 1],
                     Event(e))

BestIgnored(e) ==
    /\ script = "best" /\ BestOthers
    /\ \/ e.type = EV_ABS /\ e.code \notin {ABS_X, ABS_Y, ABS_RY, ABS_RX, ABS_Z, ABS_RZ}
       \/ e.type = EV_KEY /\ (e.value # 1 \/ e.code \notin {BTN_SOUTH, BTN_WEST, BTN_EAST,
                                                            BTN_NORTH, BTN_TL, BTN_TR})
       \/ e.type \notin {EV_ABS, EV_KEY}
    /\ BestStore(BestMachine, Event(e))

\* Angles, speeds (in tenths) and commands the model POSTs to /control.  A
\* command holds any of the keys 'servo', 'all', 'hold' and 'speed'; a key
\* that is absent is the empty tuple.
PostServoAngles == {90, 181}
PostAllAngles == {-1, 90}
PostSpeeds == {9, 30}

BestCommands ==
    {[NoCommand EXCEPT !.servo = <<focus, a>>] : a \in PostServoAngles}
    \cup {[NoCommand EXCEPT !.all = <<a>>] : a \in PostAllAngles}
    \cup {[NoCommand EXCEPT !.hold = <<focus, b>>] : b \in BOOLEAN}
    \cup {[NoCommand EXCEPT !.speed = <<t>>] : t \in PostSpeeds}
    \cup {[servo |-> <<focus, 181>>, all |-> <<90>>, hold |-> <<focus, TRUE>>,
           speed |-> <<9>>]}

\* The four parts of do_POST, each skipped when its key is absent.
best_post_servo(m, cmd, drop) ==
    IF cmd.servo # <<>> THEN best_move_servo(m, cmd.servo[1], cmd.servo[2], FALSE, drop)
    ELSE m
best_post_all(m, cmd) ==
    IF cmd.all # <<>> THEN best_move_all_servos(m, cmd.all[1]) ELSE m
best_post_hold(m, cmd) ==
    IF cmd.hold # <<>> THEN [m EXCEPT !.hold[cmd.hold[1]] = cmd.hold[2]] ELSE m
best_post_speed(m, cmd) ==
    IF cmd.speed # <<>>
    THEN LET speed == Max(1, Min(20, cmd.speed[1]))
         IN  [m EXCEPT !.speed = speed, !.below = BestDecimalBelow(speed)]
    ELSE m

best_do_POST(m, cmd, drop) ==
    best_post_speed(best_post_hold(best_post_all(best_post_servo(m, cmd, drop), cmd), cmd), cmd)

\* POST /control
BestPost(cmd, drop) ==
    /\ script = "best" /\ BestOthers
    /\ BestStore(best_do_POST(BestMachine, cmd, drop), Post(cmd))

BestNext ==
    \/ \E e \in BestEvents, drop \in BOOLEAN : BestStick(e, drop)
    \/ \E e \in BestEvents : BestTrigger(e)
    \/ \E e \in BestEvents : BestHoldKey(e)
    \/ \E e \in BestEvents : BestIgnored(e)
    \/ \E cmd \in BestCommands, drop \in BOOLEAN : BestPost(cmd, drop)

\* The speed controls alone: the bumpers and POSTs of a speed, over a wider
\* set of speeds than BestCommands has.
BestSpeedCommands == {[NoCommand EXCEPT !.speed = <<t>>] : t \in {0, 3, 7, 15, 30}}

BestSpeedNext ==
    \/ \E e \in BestSpeedEvents, below \in BOOLEAN : BestSpeedKey(e, below)
    \/ \E e \in BestEvents : BestHoldKey(e)
    \/ \E cmd \in BestSpeedCommands : BestPost(cmd, FALSE)

\* One call of move_servo from any position and speed the script can reach.
Call(channel, value, is_joystick) ==
    [src |-> IF is_joystick THEN "joystick" ELSE "direct", ev |-> NoEvent,
     cmd |-> [NoCommand EXCEPT !.servo = <<channel, value>>]]

\* Angles the model passes to move_servo directly.
DirectAngles == {45, 181}

BestMoveServoCall(value, is_joystick, drop) ==
    /\ script = "move_servo" /\ BestOthers
    /\ best_op = NoOp
    /\ BestStore(best_move_servo(BestMachine, focus, value, is_joystick, drop),
                 Call(focus, value, is_joystick))

\* move_servo called again and again with the same arguments.
BestMoveServoRepeat(value, is_joystick, drop) ==
    /\ script = "move_servo" /\ BestOthers
    /\ best_op \in {NoOp, Call(focus, value, is_joystick)}
    /\ BestStore(best_move_servo(BestMachine, focus, value, is_joystick, drop),
                 Call(focus, value, is_joystick))

MoveServoRepeatNext ==
    \/ \E v \in BestJoyValues, drop \in BOOLEAN : BestMoveServoRepeat(v, TRUE, drop)
    \/ \E a \in DirectAngles, drop \in BOOLEAN : BestMoveServoRepeat(a, FALSE, drop)

MoveServoNext ==
    \/ \E v \in BestJoyValues, drop \in BOOLEAN : BestMoveServoCall(v, TRUE, drop)
    \/ \E a \in DirectAngles, drop \in BOOLEAN : BestMoveServoCall(a, FALSE, drop)

---------------------------------------------------------------------------
(* joystick_to_pwm on its whole input range *)

\* The values of a 16-bit joystick axis.
JoyRange == (-32767 - 1) .. 32767

JInit ==
    /\ j_value = 0
    /\ j_angle = <<>>
    /\ j_pwm_value = <<>>
    /\ j_done = FALSE

\* One call of joystick_to_pwm on the drawn value.
JConvert ==
    /\ script = "joystick_to_pwm"
    /\ ~j_done
    /\ j_angle' = <<uc_joystick_to_pwm(j_value).angle, v11_joystick_to_pwm(j_value).angle,
                    best_joystick_to_pwm(j_value).angle>>
    /\ j_pwm_value' = <<uc_joystick_to_pwm(j_value).pwm_value,
                        v11_joystick_to_pwm(j_value).pwm_value,
                        best_joystick_to_pwm(j_value).pwm_value>>
    /\ j_done' = TRUE
    /\ UNCHANGED <<script, focus, j_value, ucVars, v11Vars, v8Vars, bestVars, sideVars>>

---------------------------------------------------------------------------
(* CSV playback: unified_controller.py and archive/controller_ps3.py *)

\* A file is a sequence of rows as csv.reader yields them, each a sequence of
\* field texts, or cannot be opened.
MissingFile == [opens |-> FALSE, rows |-> <<>>]

\* int(text) for the field texts of the model; int() raises ValueError on
\* every other text.
IntOfText ==
    ("0" :> 0) @@ ("45" :> 45) @@ ("90" :> 90) @@ ("180" :> 180) @@ (" 7" :> 7)
    @@ ("200" :> 200) @@ ("-92" :> -92)
IsIntText(text) == text \in DOMAIN IntOfText

\* Rows the model's files are made of: three rows of four integers, a row
\* with a field that is no integer, a row of three fields, one of five, and
\* an empty line.
CsvRows ==
    { <<"0", "45", "90", "180">>, <<"90", " 7", "200", "0">>, <<"-92", "0", "0", "0">>,
      <<"0", "x", "90", "180">>, <<"90", "90", "90">>, <<"1", "2", "3", "4", "5">>, <<>> }

\* Rows in a file of the model, at most.
MaxRows == 3

CsvFiles ==
    {MissingFile} \cup
    UNION {{[opens |-> TRUE, rows |-> r] : r \in [1 .. n -> CsvRows]} : n \in 0 .. MaxRows}

\* The loop of read_angles_from_csv over the rows left, angles being the
\* list built so far; the ValueError of int() leaves the loop and the with
\* block, and the list built so far is returned.
RECURSIVE uc_read_rows(_, _)
uc_read_rows(rows, angles) ==
    IF rows = <<>> THEN angles
    ELSE LET row == Head(rows)
         IN  IF Len(row) = 4
             THEN IF \A i \in 1 .. 4 : IsIntText(row[i])
                  THEN uc_read_rows(Tail(rows),
                                    Append(angles, [i \in 1 .. 4 |-> IntOfText[row[i]]]))
                  ELSE angles
             ELSE uc_read_rows(Tail(rows), angles)

\* read_angles_from_csv that skips a row it cannot convert and reads on.
uc_read_angles_from_csv_skipping(file) ==
    IF file.opens
    THEN uc_read_rows(SelectSeq(file.rows,
                                LAMBDA row : \A i \in DOMAIN row : IsIntText(row[i])), <<>>)
    ELSE <<>>

uc_read_angles_from_csv(file) ==
    IF file.opens THEN uc_read_rows(file.rows, <<>>) ELSE <<>>

RECURSIVE ps3_read_rows(_, _)
ps3_read_rows(rows, angles) ==
    IF rows = <<>> THEN angles
    ELSE LET row == Head(rows)
         IN  IF Len(row) = 4
             THEN IF \A i \in 1 .. 4 : IsIntText(row[i])
                  THEN ps3_read_rows(Tail(rows),
                                     Append(angles, [i \in 1 .. 4 |-> IntOfText[row[i]]]))
                  ELSE angles
             ELSE ps3_read_rows(Tail(rows), angles)

ps3_read_angles_from_csv(file) ==
    IF file.opens THEN ps3_read_rows(file.rows, <<>>) ELSE <<>>

\* Angles, among those the model reads, at which the double
\* SERVO_MIN + (angle / SERVO_RANGE) * (SERVO_MAX - SERVO_MIN) falls short of
\* its exact value, an integer: int() then yields the integer next to it
\* toward zero.  (The next such angles are -98, -184, -196 and 734.)
PulseFallsShort == {-92}

\* The pulse run_csv_mode computes for an angle.
uc_csv_pulse(angle) ==
    IF angle \in PulseFallsShort
    THEN (IF uc_angle_pulse(angle) < 0 THEN uc_angle_pulse(angle) + 1
          ELSE uc_angle_pulse(angle) - 1)
    ELSE uc_angle_pulse(angle)

\* The commands of a row sent to the channels 1 .. 4 instead of 0 .. 3.
uc_csv_row_cmds_from_one(angles) ==
    [i \in 1 .. Min(Len(angles), 4) |-> <<i, uc_csv_pulse(angles[i])>>]

\* The PWM commands of one row in run_csv_mode.
uc_csv_row_cmds(angles) ==
    IF uc_PWM
    THEN [i \in 1 .. Min(Len(angles), 4) |-> <<i - 1, uc_csv_pulse(angles[i])>>]
    ELSE <<>>

\* joystick_to_pwm of controller_ps3.py returns the pulse alone.
ps3_joystick_to_pwm(value) ==
    LET angle == Trunc((value + 32767) * 180, 65534)
    IN  Trunc(SERVO_MIN * 180 + angle * (SERVO_MAX - SERVO_MIN), 180)

\* The PWM commands of move_servos.
ps3_move_servos(angle1, angle2, angle3, angle4) ==
    [i \in 1 .. 4 |-> <<i - 1, ps3_joystick_to_pwm(<<angle1, angle2, angle3, angle4>>[i])>>]

CsvInit ==
    /\ csv_file \in CsvFiles
    /\ csv_angles = <<>>
    /\ csv_pc = "start"
    /\ csv_row = 0
    /\ csv_pwm_cmds = <<>>

\* No CSV playback runs.
CsvIdle ==
    /\ csv_file = MissingFile
    /\ csv_angles = <<>>
    /\ csv_pc = "start"
    /\ csv_row = 0
    /\ csv_pwm_cmds = <<>>

CsvOthers ==
    UNCHANGED <<script, focus, ucVars, v11Vars, v8Vars, bestVars, jVars, csv_file, thrVars,
                kbdVars, extraVars>>

\* run_csv_mode up to its loop: read the file, return if it gave no row.
UcCsvRead ==
    /\ script = "unified_csv" /\ CsvOthers
    /\ csv_pc = "start"
    /\ csv_angles' = uc_read_angles_from_csv(csv_file)
    /\ csv_pc' = IF csv_angles' = <<>> THEN "done" ELSE "play"
    /\ csv_row' = 1
    /\ UNCHANGED csv_pwm_cmds

\* One turn of run_csv_mode's loop.
UcCsvPlay ==
    /\ script = "unified_csv" /\ CsvOthers
    /\ csv_pc = "play"
    /\ csv_pwm_cmds' = csv_pwm_cmds \o uc_csv_row_cmds(csv_angles[csv_row])
    /\ csv_row' = csv_row + 1
    /\ csv_pc' = IF csv_row = Len(csv_angles) THEN "done" ELSE "play"
    /\ UNCHANGED csv_angles

\* controller_ps3.py, choice '1': read the file.
Ps3CsvRead ==
    /\ script = "ps3_csv" /\ CsvOthers
    /\ csv_pc = "start"
    /\ csv_angles' = ps3_read_angles_from_csv(csv_file)
    /\ csv_pc' = IF csv_angles' = <<>> THEN "done" ELSE "play"
    /\ csv_row' = 1
    /\ UNCHANGED csv_pwm_cmds

\* One turn of its loop: move_servos(*angles).
Ps3CsvPlay ==
    /\ script = "ps3_csv" /\ CsvOthers
    /\ csv_pc = "play"
    /\ LET angles == csv_angles[csv_row]
       IN  csv_pwm_cmds' = csv_pwm_cmds
               \o ps3_move_servos(angles[1], angles[2], angles[3], angles[4])
    /\ csv_row' = csv_row + 1
    /\ csv_pc' = IF csv_row = Len(csv_angles) THEN "done" ELSE "play"
    /\ UNCHANGED csv_angles

UcCsvNext == UcCsvRead \/ UcCsvPlay
Ps3CsvNext == Ps3CsvRead \/ Ps3CsvPlay

---------------------------------------------------------------------------
(* servo_controller_best.py: the controller thread and the handler threads
   of the ThreadingTCPServer, interleaved statement by statement *)

\* The controller thread calls move_servo with stick values; a handler
\* thread calls it with the angle of a POSTed 'servo' command.
Threads == {"controller", "handler"}

\* A thread outside move_servo.
ThrOutside == [pc |-> "idle", value |-> 0, angle |-> 0, pwm_value |-> 0, current_angle |-> 0]

ThrInit == thr = [t \in Threads |-> ThrOutside]

ThrOthers ==
    UNCHANGED <<script, focus, ucVars, v11Vars, v8Vars, jVars, csvVars, kbdVars, extraVars,
                best_op>>

\* The arguments the threads call move_servo with, on the focus channel.
ThrValues(t) == IF t = "controller" THEN BestJoyValues ELSE PostServoAngles

\* Line 215: the call; channel is focus, is_joystick is true in the
\* controller thread and false in a handler thread.
ThrCall(t, value) ==
    /\ script = "best_threads" /\ ThrOthers
    /\ thr[t].pc = "idle"
    /\ thr' = [thr EXCEPT ![t] = [ThrOutside EXCEPT !.pc = "test", !.value = value]]
    /\ UNCHANGED <<best_hold_state, best_servo_positions, best_servo_speed, best_speed_below,
                   best_pwm_cmds>>

\* Line 217, the test of hold_state[channel], and lines 218-225, which work
\* on locals only.
ThrTest(t) ==
    /\ script = "best_threads" /\ ThrOthers
    /\ thr[t].pc = "test"
    /\ IF best_hold_state[focus]
       THEN thr' = [thr EXCEPT ![t] = ThrOutside]
       ELSE LET is_joystick == t = "controller"
                v == IF is_joystick /\ (focus = 0 \/ focus = 3) THEN -thr[t].value
                     ELSE thr[t].value
            IN  thr' = [thr EXCEPT
                    ![t].pc = "read",
                    ![t].angle = IF is_joystick THEN best_joystick_to_pwm(v).angle ELSE v,
                    ![t].pwm_value = IF is_joystick THEN best_joystick_to_pwm(v).pwm_value
                                     ELSE best_angle_to_pwm(v)]
    /\ UNCHANGED <<best_hold_state, best_servo_positions, best_servo_speed, best_speed_below,
                   best_pwm_cmds>>

\* Line 228: current_angle = servo_positions[channel]
ThrRead(t) ==
    /\ script = "best_threads" /\ ThrOthers
    /\ thr[t].pc = "read"
    /\ thr' = [thr EXCEPT ![t].pc = "step", ![t].current_angle = best_servo_positions[focus]]
    /\ UNCHANGED <<best_hold_state, best_servo_positions, best_servo_speed, best_speed_below,
                   best_pwm_cmds>>

\* Lines 229-237: the step toward the angle, at the servo_speed read now.
ThrStep(t, drop) ==
    /\ script = "best_threads" /\ ThrOthers
    /\ thr[t].pc = "step"
    /\ LET angle_diff == thr[t].angle - thr[t].current_angle
           step == best_step(AbsVal(angle_diff), best_servo_speed, best_speed_below, drop)
           angle == IF angle_diff > 0 THEN thr[t].current_angle + step
                    ELSE thr[t].current_angle - step
       IN  thr' = IF AbsVal(angle_diff) > 0
                  THEN [thr EXCEPT ![t].pc = "set_pwm", ![t].angle = angle,
                                   ![t].pwm_value = best_angle_to_pwm(angle)]
                  ELSE [thr EXCEPT ![t].pc = "set_pwm"]
    /\ UNCHANGED <<best_hold_state, best_servo_positions, best_servo_speed, best_speed_below,
                   best_pwm_cmds>>

\* Line 239: pwm.set_pwm(channel, 0, pwm_value); best_pwm_cmds holds the
\* command issued last.
ThrSetPwm(t) ==
    /\ script = "best_threads" /\ ThrOthers
    /\ thr[t].pc = "set_pwm"
    /\ best_pwm_cmds' = << <<focus, thr[t].pwm_value>> >>
    /\ thr' = [thr EXCEPT ![t].pc = "store"]
    /\ UNCHANGED <<best_hold_state, best_servo_positions, best_servo_speed, best_speed_below>>

\* Line 240: servo_positions[channel] = angle, and the return.
ThrStore(t) ==
    /\ script = "best_threads" /\ ThrOthers
    /\ thr[t].pc = "store"
    /\ best_servo_positions' = [best_servo_positions EXCEPT ![focus] = thr[t].angle]
    /\ thr' = [thr EXCEPT ![t] = ThrOutside]
    /\ UNCHANGED <<best_hold_state, best_servo_speed, best_speed_below, best_pwm_cmds>>

\* Line 520 in the handler thread of another request, a POST with the one
\* key 'hold': hold_state[channel] = state
ThrPostHold(state) ==
    /\ script = "best_threads" /\ ThrOthers
    /\ best_hold_state' = [best_hold_state EXCEPT ![focus] = state]
    /\ UNCHANGED <<thr, best_servo_positions, best_servo_speed, best_speed_below,
                   best_pwm_cmds>>

ThreadsNext ==
    \/ \E t \in Threads : \E value \in ThrValues(t) : ThrCall(t, value)
    \/ \E t \in Threads : ThrTest(t)
    \/ \E t \in Threads : ThrRead(t)
    \/ \E t \in Threads, drop \in BOOLEAN : ThrStep(t, drop)
    \/ \E t \in Threads : ThrSetPwm(t)
    \/ \E t \in Threads : ThrStore(t)
    \/ \E state \in BOOLEAN : ThrPostHold(state)

---------------------------------------------------------------------------
(* servo_controller_best.py: the 'q' key *)

\* Time is counted in tenths of a second, the period of main_loop.
TenthsPerSecond == 10

\* The clock stops here.
MaxTenths == 22

\* q_press_count counting every 'q', whenever it comes.
best_q_count_unpaced(count, now, last) == count + 1

\* q_press_count after a 'q' read at time now, the one before read at last.
best_q_count(count, now, last) ==
    IF now - last < TenthsPerSecond THEN count + 1 ELSE 1

\* Keys the model types: 'q' and another one.
KbdKeys == {"q", "x"}

\* The globals at start; time.time() counts from 1970, and any clock of a
\* second or more makes the first 'q' the same.
KbdStart(loop) ==
    /\ best_q_press_count = 0
    /\ best_last_q_time = 0
    /\ kbd_now = TenthsPerSecond
    /\ kbd_pc = loop
    /\ kbd_key = ""
    /\ kbd_prev_q = <<>>

KbdIdle == KbdStart("main_loop")

KbdInit == \E loop \in {"main_loop", "read_xbox_controller"} : KbdStart(loop)

KbdOthers ==
    UNCHANGED <<script, focus, ucVars, v11Vars, v8Vars, bestVars, jVars, csvVars, thrVars,
                extraVars>>

\* Time passes between two reads.
KbdTick ==
    /\ script = "best_keys" /\ KbdOthers
    /\ kbd_pc # "exited"
    /\ kbd_now < MaxTenths
    /\ kbd_now' = kbd_now + 1
    /\ UNCHANGED <<best_q_press_count, best_last_q_time, kbd_pc, kbd_key, kbd_prev_q>>

\* key = sys.stdin.read(1) and what follows it, the same in both loops.
best_read_key(key) ==
    /\ kbd_key' = key
    /\ IF key = "q"
       THEN /\ best_q_press_count' =
                   best_q_count(best_q_press_count, kbd_now, best_last_q_time)
            /\ best_last_q_time' = kbd_now
            /\ kbd_prev_q' = <<kbd_now>>
            /\ kbd_pc' = IF best_q_press_count' >= 2 THEN "exited" ELSE kbd_pc
       ELSE UNCHANGED <<best_q_press_count, best_last_q_time, kbd_prev_q, kbd_pc>>
    /\ UNCHANGED kbd_now

\* main_loop reads a key.
KbdMainLoopRead(key) ==
    /\ script = "best_keys" /\ KbdOthers
    /\ kbd_pc = "main_loop"
    /\ best_read_key(key)

\* The loop of read_xbox_controller reads a key.
KbdControllerRead(key) ==
    /\ script = "best_keys" /\ KbdOthers
    /\ kbd_pc = "read_xbox_controller"
    /\ best_read_key(key)

KeysNext ==
    \/ KbdTick
    \/ \E key \in KbdKeys : KbdMainLoopRead(key)
    \/ \E key \in KbdKeys : KbdControllerRead(key)

---------------------------------------------------------------------------
(* servo_controller_best.py: exit_handler and the threads of the process *)

\* The two threads that read the keyboard; the controller thread is a
\* daemon thread, and so are the web server's.
ExitThreads == {"main_loop", "read_xbox_controller"}

ExitInit ==
    /\ ex_pc = [t \in ExitThreads |-> "loop"]
    /\ ex_process = "running"
    /\ ex_all_off = FALSE
    /\ ex_pwm_after = FALSE

ExitOthers ==
    UNCHANGED <<script, focus, ucVars, v11Vars, v8Vars, jVars, csvVars, thrVars, altVars,
                logVars, spdVars>>

ExitTick ==
    /\ script = "best_exit" /\ ExitOthers
    /\ ex_process = "running"
    /\ kbd_now < MaxTenths
    /\ kbd_now' = kbd_now + 1
    /\ UNCHANGED <<best_q_press_count, best_last_q_time, kbd_pc, kbd_key, kbd_prev_q, bestVars,
                   exitVars>>

\* A loop reads a key; the second 'q' in a second takes its thread into
\* exit_handler.
ExitRead(t, key) ==
    /\ script = "best_exit" /\ ExitOthers
    /\ ex_process = "running" /\ ex_pc[t] = "loop"
    /\ best_read_key(key)
    /\ ex_pc' = IF key = "q" /\ best_q_press_count' >= 2
                THEN [ex_pc EXCEPT ![t] = "exit_handler"] ELSE ex_pc
    /\ UNCHANGED <<bestVars, ex_process, ex_all_off, ex_pwm_after>>

\* Lines 272-273: pwm.set_all_pwm(0, 0)
ExitAllOff(t) ==
    /\ script = "best_exit" /\ ExitOthers
    /\ ex_process = "running" /\ ex_pc[t] = "exit_handler"
    /\ ex_all_off' = TRUE
    /\ ex_pc' = [ex_pc EXCEPT ![t] = "dump"]
    /\ UNCHANGED <<bestVars, kbdVars, ex_process, ex_pwm_after>>

\* Lines 274-279: the log is written and sys.exit(0) raises SystemExit.  No
\* except clause of either loop catches it: in the main thread it ends the
\* process, the other threads being daemons; in the controller thread it
\* ends that thread alone.
ExitSysExit(t) ==
    /\ script = "best_exit" /\ ExitOthers
    /\ ex_process = "running" /\ ex_pc[t] = "dump"
    /\ ex_pc' = [ex_pc EXCEPT ![t] = "done"]
    /\ ex_process' = IF t = "main_loop" THEN "terminated" ELSE "running"
    /\ UNCHANGED <<bestVars, kbdVars, ex_all_off, ex_pwm_after>>

\* What an operation that issued the PWM commands cmds leaves in the history.
ExitIssued(cmds) ==
    /\ ex_pwm_after' = (ex_pwm_after \/ (ex_all_off /\ cmds # <<>>))
    /\ UNCHANGED <<kbdVars, ex_pc, ex_process, ex_all_off>>

\* The controller thread handles a stick event of the focus channel.
ExitStick(value, drop) ==
    /\ script = "best_exit" /\ ExitOthers
    /\ ex_process = "running" /\ ex_pc["read_xbox_controller"] = "loop"
    /\ LET e == Abs(BestStickCode(focus), value)
           m == best_move_servo(BestMachine, focus, value, TRUE, drop)
       IN  BestStore(m, Event(e)) /\ ExitIssued(m.cmds)

\* A handler thread of the web server handles POST /control with a 'servo'
\* command for the focus channel.
ExitPost(angle, drop) ==
    /\ script = "best_exit" /\ ExitOthers
    /\ ex_process = "running"
    /\ LET cmd == [NoCommand EXCEPT !.servo = <<focus, angle>>]
           m == best_do_POST(BestMachine, cmd, drop)
       IN  BestStore(m, Post(cmd)) /\ ExitIssued(m.cmds)

ExitNext ==
    \/ ExitTick
    \/ \E t \in ExitThreads, key \in KbdKeys : ExitRead(t, key)
    \/ \E t \in ExitThreads : ExitAllOff(t)
    \/ \E t \in ExitThreads : ExitSysExit(t)
    \/ \E value \in BestJoyValues, drop \in BOOLEAN : ExitStick(value, drop)
    \/ \E angle \in PostServoAngles, drop \in BOOLEAN : ExitPost(angle, drop)

---------------------------------------------------------------------------
(* servo_controller_alt.py *)

\* Events of the inputs library: ev_type, ev_code, ev_value.
AltKey(code, value) == [ev_type |-> "Key", ev_code |-> code, ev_value |-> value]
AltAbsolute(code, value) == [ev_type |-> "Absolute", ev_code |-> code, ev_value |-> value]
AltNoEvent == [ev_type |-> "", ev_code |-> "", ev_value |-> 0]

\* The channel whose lock a button inverts, and the channel of a stick axis.
AltLockChannel(code) ==
    CASE code = "BTN_SOUTH" -> 0 [] code = "BTN_WEST" -> 1 [] code = "BTN_EAST" -> 2
      [] code = "BTN_NORTH" -> 3
AltAxisChannel(code) ==
    CASE code = "ABS_X" -> 0 [] code = "ABS_Y" -> 1 [] code = "ABS_RX" -> 2
      [] code = "ABS_RY" -> 3

\* What the controller produces: the four lock buttons pressed and
\* released, the four stick axes at both ends and in the centre.  The
\* library gives button events the type 'Key' and axis events the type
\* 'Absolute'.
AltEvents ==
    {AltKey(c, v) : c \in {"BTN_SOUTH", "BTN_WEST", "BTN_EAST", "BTN_NORTH"}, v \in {0, 1}}
    \cup {AltAbsolute(c, v) : c \in {"ABS_X", "ABS_Y", "ABS_RX", "ABS_RY"}, v \in JoyValues}

\* update_servo_angles on the state m = [locked, angles, duty]
alt_update_servo_angles(m, channel, angle) ==
    IF ~m.locked[channel]
    THEN LET clamped == Max(0, Min(180, angle))
         IN  [m EXCEPT !.angles[channel] = clamped,
                       !.duty[channel] = Trunc(clamped * 65535, 180)]
    ELSE m

\* The body of the loop over the events in handle_controller_input: both
\* the buttons and the stick axes are looked at under
\* if event.ev_type == 'Key'.
alt_handle_event(m, e) ==
    IF e.ev_type = "Key"
    THEN LET a == IF e.ev_code \in {"BTN_SOUTH", "BTN_WEST", "BTN_EAST", "BTN_NORTH"}
                  THEN [m EXCEPT !.locked[AltLockChannel(e.ev_code)] = ~@]
                  ELSE m
         IN  IF e.ev_code \in {"ABS_X", "ABS_Y", "ABS_RX", "ABS_RY"}
             THEN alt_update_servo_angles(a, AltAxisChannel(e.ev_code),
                                          90 + Trunc(e.ev_value * 90, 32767))
             ELSE a
    ELSE m

AltInit ==
    /\ alt_servo_locked = [c \in SERVO_CHANNELS |-> FALSE]
    /\ alt_servo_angles = [c \in SERVO_CHANNELS |-> 90]
    /\ alt_duty_cycle = [c \in SERVO_CHANNELS |-> 0]
    /\ alt_main = "print"
    /\ alt_event = AltNoEvent

AltOthers ==
    UNCHANGED <<script, focus, ucVars, v11Vars, v8Vars, bestVars, jVars, csvVars, thrVars,
                kbdVars, exitVars, logVars, spdVars>>

\* Whether handle_controller_input has returned.  The thread is not a
\* daemon, and its loop has no way out: while True without a break or a
\* return, and every Exception caught inside it.
alt_controller_returned == FALSE

\* The controller thread handles one event.
AltHandle(e) ==
    /\ script = "alt" /\ AltOthers
    /\ LET m == alt_handle_event([locked |-> alt_servo_locked, angles |-> alt_servo_angles,
                                  duty |-> alt_duty_cycle], e)
       IN  /\ alt_servo_locked' = m.locked
           /\ alt_servo_angles' = m.angles
           /\ alt_duty_cycle' = m.duty
    /\ alt_event' = e
    /\ UNCHANGED alt_main

\* Ctrl+C while the main thread is in its loop: the except clause prints
\* and calls controller_thread.join().
AltInterrupt ==
    /\ script = "alt" /\ AltOthers
    /\ alt_main = "print"
    /\ alt_main' = "join"
    /\ UNCHANGED <<alt_servo_locked, alt_servo_angles, alt_duty_cycle, alt_event>>

\* Line 130: controller_thread.join() returns once handle_controller_input
\* has returned, and main returns after it.
AltJoin ==
    /\ script = "alt" /\ AltOthers
    /\ alt_main = "join"
    /\ alt_main' = IF alt_controller_returned THEN "returned" ELSE "join"
    /\ UNCHANGED <<alt_servo_locked, alt_servo_angles, alt_duty_cycle, alt_event>>

\* Line 121: mpu is None (line 24 names mpu6050, which line 8 did not
\* import, and the NameError is caught), so read_mpu_data raises an
\* AttributeError that no except clause of main catches.
AltMainRaise ==
    /\ script = "alt" /\ AltOthers
    /\ alt_main = "print"
    /\ alt_main' = "raised"
    /\ UNCHANGED <<alt_servo_locked, alt_servo_angles, alt_duty_cycle, alt_event>>

AltNext ==
    \/ \E e \in AltEvents : AltHandle(e)
    \/ AltInterrupt
    \/ AltJoin
    \/ AltMainRaise

---------------------------------------------------------------------------
(* servo_controller_best.py: log_event called from two threads *)

\* The log is written out when its length is a multiple of this.
FlushEvery == 10

\* The threads stop calling log_event at this length of the log.
MaxLog == 11

LogInit ==
    /\ log_data = <<>>
    /\ log_file = <<>>
    /\ log_pc = [t \in Threads |-> "idle"]

LogOthers ==
    UNCHANGED <<script, focus, ucVars, v11Vars, v8Vars, bestVars, jVars, csvVars, thrVars,
                kbdVars, exitVars, altVars, spdVars>>

\* len(log_data) % 10 == 0
log_flush_due(length) == length % FlushEvery = 0

\* Lines 255-260: the event is built and appended.
LogAppend(t) ==
    /\ script = "best_log" /\ LogOthers
    /\ log_pc[t] = "idle"
    /\ Len(log_data) < MaxLog
    /\ log_data' = Append(log_data, t)
    /\ log_pc' = [log_pc EXCEPT ![t] = "appended"]
    /\ UNCHANGED log_file

\* Lines 263-268: the test of the length and, if it passes, the dump of the
\* whole of log_data.
LogFlush(t) ==
    /\ script = "best_log" /\ LogOthers
    /\ log_pc[t] = "appended"
    /\ log_file' = IF log_flush_due(Len(log_data)) THEN log_data ELSE log_file
    /\ log_pc' = [log_pc EXCEPT ![t] = "idle"]
    /\ UNCHANGED log_data

LogNext ==
    \/ \E t \in Threads : LogAppend(t)
    \/ \E t \in Threads : LogFlush(t)

---------------------------------------------------------------------------
(* servo_controller_best.py: the 'speed' command of a POST in a handler
   thread, beside the bumpers and the sticks in the controller thread *)

SpdInit == spd_pc = "idle"

SpdOthers ==
    UNCHANGED <<script, focus, ucVars, v11Vars, v8Vars, jVars, csvVars, thrVars, kbdVars,
                exitVars, altVars, logVars>>

\* Line 525: servo_speed = float(command['speed'])
SpdPostAssign(speed) ==
    /\ script = "best_speed_threads" /\ SpdOthers
    /\ spd_pc = "idle"
    /\ spd_pc' = "assigned"
    /\ BestStore([BestMachine EXCEPT !.speed = speed, !.below = BestDecimalBelow(speed)],
                 Post([NoCommand EXCEPT !.speed = <<speed>>]))

\* Line 526: servo_speed = max(0.1, min(2.0, servo_speed))
SpdPostClamp ==
    /\ script = "best_speed_threads" /\ SpdOthers
    /\ spd_pc = "assigned"
    /\ spd_pc' = "idle"
    /\ LET speed == Max(1, Min(20, best_servo_speed))
       IN  BestStore([BestMachine EXCEPT
                         !.speed = speed,
                         !.below = IF speed = best_servo_speed THEN best_speed_below
                                   ELSE FALSE],
                     best_op)

\* Lines 433-440: a bumper in the controller thread.
SpdBumper(e, below) ==
    /\ script = "best_speed_threads" /\ SpdOthers
    /\ e.type = EV_KEY /\ e.value = 1 /\ e.code \in {BTN_TL, BTN_TR}
    /\ LET speed == IF e.code = BTN_TL THEN best_speed_down(best_servo_speed)
                    ELSE best_speed_up(best_servo_speed)
       IN  BestStore([BestMachine EXCEPT !.speed = speed, !.below = below /\ speed > 1],
                     Event(e))
    /\ UNCHANGED spd_pc

\* The stick of the focus channel pushed to its end: move_servo, which
\* reads servo_speed at line 232.
SpdStick(drop) ==
    /\ script = "best_speed_threads" /\ SpdOthers
    /\ LET e == Abs(BestStickCode(focus), 32767)
       IN  BestStore(best_move_servo(BestMachine, focus, e.value, TRUE, drop), Event(e))
    /\ UNCHANGED spd_pc

SpeedThreadsNext ==
    \/ \E speed \in PostSpeeds : SpdPostAssign(speed)
    \/ SpdPostClamp
    \/ \E e \in BestSpeedEvents, below \in BOOLEAN : SpdBumper(e, below)
    \/ \E drop \in BOOLEAN : SpdStick(drop)

---------------------------------------------------------------------------
(* Specifications *)

Programs ==
    /\ UcInit
    /\ V11Init
    /\ V8Init
    /\ BestInit

\* Nothing runs beside the controller scripts.
ExtraIdle == ExitInit /\ AltInit /\ LogInit /\ SpdInit

SideIdle == CsvIdle /\ ThrInit /\ KbdIdle /\ ExtraIdle

\* The scripts other than unified_controller.py run with an Xbox controller.
Xbox == uc_controller_type = "Xbox"

InitUnified == script = "unified" /\ focus \in SERVO_CHANNELS /\ Programs /\ JInit /\ SideIdle
InitV11 == script = "v11" /\ focus \in SERVO_CHANNELS /\ Programs /\ JInit /\ SideIdle /\ Xbox
InitV8 == script = "v8" /\ focus \in SERVO_CHANNELS /\ Programs /\ JInit /\ SideIdle /\ Xbox
InitSpeed == script \in {"unified", "v11"} /\ focus \in SERVO_CHANNELS /\ Programs /\ JInit /\ SideIdle
InitBest == script = "best" /\ focus \in SERVO_CHANNELS /\ Programs /\ JInit /\ SideIdle /\ Xbox
InitMoveServo ==
    /\ script = "move_servo"
    /\ focus \in SERVO_CHANNELS
    /\ UcInit /\ V11Init /\ V8Init /\ JInit /\ SideIdle /\ Xbox
    /\ best_hold_state = [c \in SERVO_CHANNELS |-> FALSE]
    /\ best_servo_positions \in
           {[c \in SERVO_CHANNELS |-> IF c = focus THEN p ELSE 90] : p \in 0 .. 180}
    /\ best_servo_speed \in 1 .. 20
    /\ best_speed_below \in (IF best_servo_speed \in 2 .. 19 THEN BOOLEAN ELSE {FALSE})
    /\ best_op = NoOp
    /\ best_pwm_cmds = <<>>
\* Positions the repeated calls start from.
RepeatStarts == {0, 90, 180}
InitMoveServoRepeat ==
    /\ script = "move_servo"
    /\ focus \in SERVO_CHANNELS
    /\ UcInit /\ V11Init /\ V8Init /\ JInit /\ SideIdle /\ Xbox
    /\ best_hold_state = [c \in SERVO_CHANNELS |-> FALSE]
    /\ best_servo_positions \in
           {[c \in SERVO_CHANNELS |-> IF c = focus THEN p ELSE 90] : p \in RepeatStarts}
    /\ best_servo_speed \in 1 .. 20
    /\ best_speed_below \in (IF best_servo_speed \in 2 .. 19 THEN BOOLEAN ELSE {FALSE})
    /\ best_op = NoOp
    /\ best_pwm_cmds = <<>>
InitJoystick ==
    /\ script = "joystick_to_pwm"
    /\ focus = 0
    /\ Programs /\ Xbox /\ SideIdle
    /\ j_value \in JoyRange
    /\ j_angle = <<>>
    /\ j_pwm_value = <<>>
    /\ j_done = FALSE

\* unified_controller.py, run_controller_mode
SpecUnified == InitUnified /\ [][UcNext]_vars

\* xbox_controller_reader_v11.py, read_xbox_controller
SpecV11 == InitV11 /\ [][V11Next]_vars

\* xbox_controller_reader_v8.py, read_xbox_controller
SpecV8 == InitV8 /\ [][V8Next]_vars

\* The speed controls of unified_controller.py and xbox_controller_reader_v11.py
SpecSpeed == InitSpeed /\ [][UcSpeedNext \/ V11SpeedNext]_vars

\* servo_controller_best.py: controller events and POST /control requests
SpecBest == InitBest /\ [][BestNext]_vars

\* servo_controller_best.py: the speed controls
SpecBestSpeed == InitBest /\ [][BestSpeedNext]_vars

\* servo_controller_best.py: one call of move_servo
SpecMoveServo == InitMoveServo /\ [][MoveServoNext]_vars

\* CSV playback by unified_controller.py and by archive/controller_ps3.py
InitCsv ==
    /\ script \in {"unified_csv", "ps3_csv"}
    /\ focus = 0
    /\ Programs /\ Xbox /\ JInit /\ CsvInit /\ ThrInit /\ KbdIdle /\ ExtraIdle
SpecCsv == InitCsv /\ [][UcCsvNext \/ Ps3CsvNext]_vars

\* servo_controller_best.py: POSTs of 'speed' beside the controller thread
InitSpeedThreads ==
    /\ script = "best_speed_threads" /\ focus = 0
    /\ Programs /\ JInit /\ Xbox /\ SideIdle
SpecSpeedThreads == InitSpeedThreads /\ [][SpeedThreadsNext]_vars

\* servo_controller_best.py: log_event in the controller thread and in a
\* handler thread
InitLog ==
    /\ script = "best_log" /\ focus = 0
    /\ Programs /\ JInit /\ Xbox /\ SideIdle
SpecLog == InitLog /\ [][LogNext]_vars

\* servo_controller_alt.py; every thread that can take a step takes one in
\* the end
InitAlt ==
    /\ script = "alt" /\ focus = 0
    /\ Programs /\ JInit /\ Xbox /\ SideIdle
SpecAlt == InitAlt /\ [][AltNext]_vars /\ WF_vars(AltNext)

\* servo_controller_best.py: the 'q' key, exit_handler and the servo
\* commands of the other threads; the clock starts late, a second 'q' then
\* always follows the first within a second
InitExit ==
    /\ script = "best_exit" /\ focus \in SERVO_CHANNELS
    /\ Programs /\ JInit /\ Xbox /\ CsvIdle /\ ThrInit /\ ExtraIdle
    /\ best_q_press_count = 0
    /\ best_last_q_time = 0
    /\ kbd_now = MaxTenths - 1
    /\ kbd_pc = "main_loop"
    /\ kbd_key = ""
    /\ kbd_prev_q = <<>>
SpecExit == InitExit /\ [][ExitNext]_vars

\* servo_controller_best.py: the keyboard read by one of the two loops
InitKeys ==
    /\ script = "best_keys" /\ focus \in SERVO_CHANNELS
    /\ Programs /\ JInit /\ Xbox /\ CsvIdle /\ ThrInit /\ KbdInit /\ ExtraIdle
SpecKeys == InitKeys /\ [][KeysNext]_vars

\* servo_controller_best.py: move_servo in two threads and POSTs of 'hold'
InitBestThreads ==
    script = "best_threads" /\ focus \in SERVO_CHANNELS /\ Programs /\ JInit /\ SideIdle /\ Xbox
SpecBestThreads == InitBestThreads /\ [][ThreadsNext]_vars

\* unified_controller.py: the hold buttons, from states the sticks, the
\* speed controls and the lock control lead to
InitHold ==
    /\ script = "unified"
    /\ focus \in SERVO_CHANNELS
    /\ V11Init /\ V8Init /\ BestInit /\ JInit /\ SideIdle
    /\ uc_controller_type \in {"PS3", "Xbox"}
    /\ uc_hold_state = [c \in SERVO_CHANNELS |-> FALSE]
    /\ uc_lock_state \in BOOLEAN
    /\ uc_servo_positions \in
           {[c \in SERVO_CHANNELS |-> IF c = focus THEN uc_joystick_to_pwm(v).angle ELSE 90] :
               v \in JoyValues}
    /\ uc_servo_speed \in {1, 10, 20}
    /\ uc_last_activity = 0
    /\ uc_last_stick = <<>>
    /\ uc_now = 0
    /\ uc_event = NoEvent
    /\ uc_pwm_cmds = <<>>
SpecHold == InitHold /\ [][UcHoldNext]_vars

\* unified_controller.py and xbox_controller_reader_v11.py: calibration
InitCalibration ==
    script \in {"unified", "v11"} /\ focus \in SERVO_CHANNELS /\ Programs /\ JInit /\ SideIdle
SpecCalibration == InitCalibration /\ [][UcCalibrationNext \/ V11CalibrationNext]_vars

\* servo_controller_best.py: move_servo called with the same arguments for
\* as long as a call changes anything
SpecMoveServoRepeat ==
    InitMoveServoRepeat /\ [][MoveServoRepeatNext]_vars /\ WF_vars(MoveServoRepeatNext)

\* joystick_to_pwm on every 16-bit value
SpecJoystick == InitJoystick /\ [][JConvert]_vars

---------------------------------------------------------------------------
(* Claims about unified_controller.py *)

\* The events that toggle lock_state: D-pad down, as hat axis or as key.
UcLockToggle(e) == e = Abs(17, 1) \/ (~UcPS3 /\ e = Key(BTN_DPAD_DOWN, 1))

\* C1: while hold_state[c] is set, no event other than the press of c's hold
\* button changes servo_positions[c]; stick, motion-sensor, move-all and
\* calibration events included.
C1_HoldFreezesEveryInput ==
    [][\A c \in SERVO_CHANNELS :
          (uc_hold_state[c] /\ uc_event' # Key(UcHoldCode(c), 1))
              => uc_servo_positions'[c] = uc_servo_positions[c]]_vars

\* C2: while lock_state is set, no event changes a servo position or issues
\* a PWM command, and only a lock-toggle event clears lock_state.
C2_LockFreezesAll ==
    [][uc_lock_state =>
          /\ uc_servo_positions' = uc_servo_positions
          /\ uc_pwm_cmds' = <<>>
          /\ (~uc_lock_state' => UcLockToggle(uc_event'))]_vars

\* A stick event that would have moved the focus channel was handled while
\* the servos were locked, and nothing was commanded.
C2_Witness ==
    /\ script = "unified"
    /\ uc_lock_state
    /\ uc_event \in {Abs(UcStickCode(focus), v) : v \in JoyValues}
    /\ uc_joystick_to_pwm(uc_event.value).angle # uc_servo_positions[focus]
    /\ uc_pwm_cmds = <<>>

---------------------------------------------------------------------------
(* Claims about xbox_controller_reader_v11.py and xbox_controller_reader_v8.py *)

\* C6: while hold_state[c] is set, a stick event of channel c leaves
\* servo_positions[c] unchanged and issues no PWM command on channel c.
C6_V11HoldFreezesStick ==
    [][\A c \in SERVO_CHANNELS :
          (v11_hold_state[c] /\ v11_event' \in {Abs(V11StickCode(c), v) : v \in JoyValues})
              => /\ v11_servo_positions'[c] = v11_servo_positions[c]
                 /\ \A i \in DOMAIN v11_pwm_cmds' : v11_pwm_cmds'[i][1] # c]_vars

\* C7: while global_hold is set, no event changes a servo position or issues
\* a PWM command; the D-pad left/right move-all events included.
C7_V8GlobalHoldFreezesAll ==
    [][v8_global_hold =>
          /\ v8_servo_positions' = v8_servo_positions
          /\ v8_pwm_cmds' = <<>>]_vars

---------------------------------------------------------------------------
(* Claims about servo_speed *)

\* The events that raise and lower servo_speed in unified_controller.py ...
UcSpeedUp(e) ==
    e = Abs(16, 1) \/ e = Key(IF UcPS3 THEN 295 ELSE BTN_TR, 1)
UcSpeedDown(e) ==
    e = Abs(16, -1) \/ e = Key(IF UcPS3 THEN 294 ELSE BTN_TL, 1)
\* ... and in xbox_controller_reader_v11.py
V11SpeedUp(e) == e = Key(BTN_TR, 1)
V11SpeedDown(e) == e = Key(BTN_TL, 1)

\* What an event does to a speed s given in tenths.
SpeedStep(s, up, down) ==
    IF up THEN (IF s + 1 > 20 THEN 20 ELSE s + 1)
    ELSE IF down THEN (IF s - 1 < 1 THEN 1 ELSE s - 1)
    ELSE s

\* C8: servo_speed starts at 1.0 and stays within 0.1 .. 2.0; an increase
\* adds 0.1 and saturates at 2.0, a decrease subtracts 0.1 and saturates at
\* 0.1, and no other event changes it (speeds in tenths).
C8_SpeedSaturates ==
    /\ uc_servo_speed = 10 /\ v11_servo_speed = 10
    /\ [](uc_servo_speed \in 1 .. 20 /\ v11_servo_speed \in 1 .. 20)
    /\ [][/\ uc_servo_speed' =
               SpeedStep(uc_servo_speed, script = "unified" /\ UcSpeedUp(uc_event'),
                         script = "unified" /\ UcSpeedDown(uc_event'))
           /\ v11_servo_speed' =
               SpeedStep(v11_servo_speed, script = "v11" /\ V11SpeedUp(v11_event'),
                         script = "v11" /\ V11SpeedDown(v11_event'))]_vars

\* The D-pad hat has just raised the speed of unified_controller.py to 2.0.
C8_Witness ==
    /\ script = "unified"
    /\ uc_event = Abs(16, 1)
    /\ uc_servo_speed = 20

---------------------------------------------------------------------------
(* Claims about joystick_to_pwm *)

\* q is n / d truncated toward zero (d > 0).
IsTrunc(q, n, d) ==
    IF n >= 0 THEN q * d <= n /\ n < (q + 1) * d
    ELSE q <= 0 /\ q * d >= n /\ n > (q - 1) * d

\* C3: for every v in -32768 .. 32767, joystick_to_pwm of the unified, v11
\* and best scripts returns the angle (v + 32767) * 180 / 65534 truncated
\* toward zero, which lies in 0 .. 180, and the pulse 150 + angle * 450 / 180
\* truncated, which lies in 150 .. 600; -32767 gives (150, 0), 0 gives
\* (375, 90) and 32767 gives (600, 180).
C3_JoystickToPwm ==
    j_done =>
        \A i \in 1 .. 3 :
            /\ IsTrunc(j_angle[i], (j_value + 32767) * 180, 65534)
            /\ j_angle[i] \in 0 .. 180
            /\ IsTrunc(j_pwm_value[i], 150 * 180 + j_angle[i] * 450, 180)
            /\ j_pwm_value[i] \in 150 .. 600
            /\ (j_value = -32767 => <<j_pwm_value[i], j_angle[i]>> = <<150, 0>>)
            /\ (j_value = 0 => <<j_pwm_value[i], j_angle[i]>> = <<375, 90>>)
            /\ (j_value = 32767 => <<j_pwm_value[i], j_angle[i]>> = <<600, 180>>)

\* The lowest value, whose quotient is negative, was converted to (150, 0).
C3_Witness ==
    /\ script = "joystick_to_pwm"
    /\ j_done
    /\ j_value = -32767 - 1
    /\ j_angle = <<0, 0, 0>>
    /\ j_pwm_value = <<150, 150, 150>>

---------------------------------------------------------------------------
(* Claims about servo_controller_best.py *)

\* The angle a call of move_servo asks for.
CallTarget(op) ==
    LET channel == op.cmd.servo[1]
        value == op.cmd.servo[2]
    IN  IF op.src = "joystick"
        THEN best_joystick_to_pwm(IF channel \in {0, 3} THEN -value ELSE value).angle
        ELSE value

\* C4: a call of move_servo on a channel that is not held, at position p and
\* with target t, stores a position between p and t inclusive, at any speed
\* in 0.1 .. 2.0; with t = p it stores p.
C4_MoveServoBetween ==
    [][best_op'.src \in {"joystick", "direct"} =>
          LET c == best_op'.cmd.servo[1]
              t == CallTarget(best_op')
              p == best_servo_positions[c]
              q == best_servo_positions'[c]
          IN  ~best_hold_state[c] =>
                  /\ Min(p, t) <= q /\ q <= Max(p, t)
                  /\ (t = p => q = p)]_vars

\* A call at speed 0.7 toward 181 has stopped short of it: a partial step.
C4_Witness ==
    /\ script = "move_servo"
    /\ best_op = Call(focus, 181, FALSE)
    /\ best_servo_speed = 7 /\ best_speed_below
    /\ best_servo_positions[focus] \in 100 .. 179
    /\ best_pwm_cmds # <<>>

\* Whether the operation op addresses channel c: a stick event of c, a
\* trigger event, a POST with a 'servo' command for c or with an 'all' command.
Addresses(op, c) ==
    \/ op.src = "event" /\ op.ev \in {Abs(BestStickCode(c), v) : v \in BestJoyValues}
    \/ op.src = "event" /\ op.ev.type = EV_ABS /\ op.ev.code \in {ABS_Z, ABS_RZ}
    \/ op.src = "post" /\ op.cmd.servo # <<>> /\ op.cmd.servo[1] = c
    \/ op.src = "post" /\ op.cmd.all # <<>>

\* C5: an operation run to completion leaves the position of every channel
\* held at its start unchanged and issues no PWM command on it, and issues a
\* PWM command on every channel it addresses that is not held; a trigger
\* event or an 'all' command stores its angle in each of them.
C5_HeldChannelsUntouched ==
    [][\A c \in SERVO_CHANNELS :
          /\ best_hold_state[c] =>
                 /\ best_servo_positions'[c] = best_servo_positions[c]
                 /\ \A i \in DOMAIN best_pwm_cmds' : best_pwm_cmds'[i][1] # c
          /\ (~best_hold_state[c] /\ Addresses(best_op', c)) =>
                 /\ \E i \in DOMAIN best_pwm_cmds' : best_pwm_cmds'[i][1] = c
                 /\ (best_op'.src = "event" /\ best_op'.ev.code \in {ABS_Z, ABS_RZ}) =>
                        best_servo_positions'[c] =
                            best_trigger_angle(best_op'.ev.code, best_op'.ev.value)
                 /\ (best_op'.src = "post" /\ best_op'.cmd.all # <<>>) =>
                        best_servo_positions'[c] = best_op'.cmd.all[1]]_vars

\* A trigger event has moved the three channels that are not held and left
\* the held focus channel, which stands elsewhere, alone.
C5_Witness ==
    /\ script = "best"
    /\ best_op = Event(Abs(ABS_RZ, 1023))
    /\ best_hold_state[focus]
    /\ best_servo_positions[focus] # 180
    /\ \A c \in SERVO_CHANNELS \ {focus} : best_servo_positions[c] = 180
    /\ Len(best_pwm_cmds) = 3

\* C9: every servo position lies in 0 .. 180 after any sequence of
\* controller events and POST /control commands with any integer angles.
C9_PositionsInRange ==
    \A c \in SERVO_CHANNELS : best_servo_positions[c] \in 0 .. 180

\* C10: every PWM command of move_servo and move_all_servos carries a pulse
\* in 150 .. 600, for any stick value, trigger value and POSTed angle.
C10_PulsesInRange ==
    \A i \in DOMAIN best_pwm_cmds : best_pwm_cmds[i][2] \in 150 .. 600

\* A POST of the angle 181 for the focus channel was answered with the
\* pulse of 180.
C10_Witness ==
    /\ script = "best"
    /\ best_op = Post([NoCommand EXCEPT !.servo = <<focus, 181>>])
    /\ best_servo_positions[focus] = 181
    /\ best_pwm_cmds = << <<focus, 600>> >>

---------------------------------------------------------------------------
(* Claims about CSV playback *)

\* p is the pulse 150 + a * 450 / 180 truncated toward zero.
PulseOf(p, a) == IsTrunc(p, 150 * 180 + a * 450, 180)

\* The angle the j-th PWM command of a playback is for, and its channel.
CsvAngleOf(j) == csv_angles[((j - 1) \div 4) + 1][((j - 1) % 4) + 1]
CsvChannelOf(j) == (j - 1) % 4

\* The rows of angles_list were played in order up to csv_row, one command
\* per channel and row, and all of them once the playback is done.
CsvPlayedInOrder ==
    /\ Len(csv_pwm_cmds) = 4 * (csv_row - 1)
    /\ \A j \in DOMAIN csv_pwm_cmds : csv_pwm_cmds[j][1] = CsvChannelOf(j)
    /\ (csv_pc = "done" => csv_row = Len(csv_angles) + 1)
    /\ (csv_angles = <<>> => csv_pwm_cmds = <<>>)

C12_Ps3CsvPulses ==
    (script = "ps3_csv" /\ csv_pc # "start") =>
        /\ CsvPlayedInOrder
        /\ \A j \in DOMAIN csv_pwm_cmds :
               CsvAngleOf(j) \in 0 .. 180 => PulseOf(csv_pwm_cmds[j][2], CsvAngleOf(j))

\* The rows of the file that read_angles_from_csv reaches and keeps: those of
\* four fields before the first row of four fields with a field that is no
\* integer.
CsvStop ==
    LET bad == {k \in DOMAIN csv_file.rows :
                   /\ Len(csv_file.rows[k]) = 4
                   /\ \E i \in 1 .. 4 : ~IsIntText(csv_file.rows[k][i])}
    IN  IF bad = {} THEN Len(csv_file.rows) + 1
        ELSE CHOOSE k \in bad : \A m \in bad : k <= m
CsvKept == {k \in DOMAIN csv_file.rows : k < CsvStop /\ Len(csv_file.rows[k]) = 4}

\* C19: read_angles_from_csv returns, in file order, the rows of four fields
\* converted to integers and skips the other rows; it returns the empty list
\* when the file cannot be opened; at a row of four fields with a field that
\* is no integer it stops, returns the rows before it and drops the later.
C19_ReadAnglesFromCsv ==
    csv_pc # "start" =>
        /\ (~csv_file.opens => csv_angles = <<>>)
        /\ Len(csv_angles) = Cardinality(CsvKept)
        /\ \A k \in CsvKept :
               csv_angles[Cardinality({m \in CsvKept : m <= k})] =
                   [i \in 1 .. 4 |-> IntOfText[csv_file.rows[k][i]]]

\* A file whose second row stopped the reading: the first row was returned,
\* the valid third row was not.
C19_Witness ==
    /\ script = "unified_csv"
    /\ csv_pc # "start"
    /\ csv_file.rows = << <<"90", " 7", "200", "0">>, <<"0", "x", "90", "180">>,
                          <<"0", "45", "90", "180">> >>
    /\ csv_angles = << <<90, 7, 200, 0>> >>

---------------------------------------------------------------------------
(* Claims about the step of move_servo in servo_controller_best.py *)

\* C14: a call of move_servo on a channel that is not held and stands off
\* its target moves it at least one degree toward the target and not past
\* it, a call on a channel at its target leaves it there, and calls repeated
\* with the same target reach the target after finitely many and stay.
C14_MoveServoConverges ==
    /\ [][best_op'.src \in {"joystick", "direct"} =>
             LET c == best_op'.cmd.servo[1]
                 t == CallTarget(best_op')
                 p == best_servo_positions[c]
                 q == best_servo_positions'[c]
             IN  ~best_hold_state[c] =>
                     IF p = t THEN q = t
                     ELSE /\ AbsVal(t - q) <= AbsVal(t - p) - 1
                          /\ AbsVal(q - p) + AbsVal(t - q) = AbsVal(t - p)]_vars
    /\ <>[](/\ best_op.src \in {"joystick", "direct"}
            /\ best_servo_positions[focus] = CallTarget(best_op))

\* Calls at speed 0.1 have brought the focus channel to the target 45.
C14_Witness ==
    /\ script = "move_servo"
    /\ best_op = Call(focus, 45, FALSE)
    /\ best_servo_speed = 1
    /\ best_servo_positions[focus] = 45
    /\ best_pwm_cmds = << <<focus, 262>> >>

\* x is int(d * servo_speed) for the double servo_speed that the tenths
\* speed stand for: the product truncated, where a double below its decimal
\* may leave a product that is an integer in decimals just under it.
IsIntTimesSpeed(x, d, speed, below) ==
    \/ 10 * x <= d * speed /\ d * speed < 10 * (x + 1)
    \/ below /\ d * speed = 10 * (x + 1)

\* The integers that can be int(d * servo_speed).
Truncations(d, speed) == {(d * speed) \div 10 - 1, (d * speed) \div 10}

\* servo_speed >= 1.0: ten additions of 0.1 leave the double under 1.0.
AtLeastUnitSpeed(speed, below) == speed > 10 \/ (speed = 10 /\ ~below)

\* The tenths of the speeds that are not above a speed; a double below its
\* decimal is under the double at the decimal.  The largest int(d * s1) of
\* such a speed is the product truncated.
SlowerSpeeds(speed, below) == IF below THEN 1 .. (speed - 1) ELSE 1 .. speed

\* C15: the step of move_servo toward a target at distance d > 0 is
\* max(1, min(d, int(d * servo_speed))); at servo_speed >= 1.0 one call on a
\* channel that is not held stores the target; and no lower servo_speed
\* yields a larger step for the same d.
C15_StepFormula ==
    [][best_op'.src \in {"joystick", "direct"} =>
          LET c == best_op'.cmd.servo[1]
              t == CallTarget(best_op')
              p == best_servo_positions[c]
              q == best_servo_positions'[c]
              d == AbsVal(t - p)
              step == IF t > p THEN q - p ELSE p - q
          IN  (~best_hold_state[c] /\ d > 0) =>
                  /\ \E x \in Truncations(d, best_servo_speed) :
                         /\ IsIntTimesSpeed(x, d, best_servo_speed, best_speed_below)
                         /\ step = Max(1, Min(d, x))
                  /\ (AtLeastUnitSpeed(best_servo_speed, best_speed_below) => q = t)
                  /\ \A s1 \in SlowerSpeeds(best_servo_speed, best_speed_below) :
                         Max(1, Min(d, (d * s1) \div 10)) <= step]_vars

\* A call at speed 0.7, the double below the decimal, toward 181: from 171
\* the step is int(10 * 0.7) = 6 or 7, from 168 it is 9.
C15_Witness ==
    /\ script = "move_servo"
    /\ best_op = Call(focus, 181, FALSE)
    /\ best_servo_speed = 7 /\ best_speed_below
    /\ best_servo_positions[focus] = 177

---------------------------------------------------------------------------
(* Claims about the calibration button *)

\* One PWM command to each of the four channels, in channel order.
AllChannels(pulse) == << <<0, pulse>>, <<1, pulse>>, <<2, pulse>>, <<3, pulse>> >>

\* The commands of the sweep: all channels to 0, then to 180, then to 90.
CalibrationSweep == AllChannels(150) \o AllChannels(600) \o AllChannels(375)

\* C17: in unified_controller.py and xbox_controller_reader_v11.py a press of
\* the calibration button while the lock is off commands all four channels
\* to 0, then to 180, then to 90, in that order within the one handler step,
\* and leaves every position at 90; a press while the lock is on changes no
\* position.
C17_CalibrationSweep ==
    [][/\ (script = "unified" /\ uc_event' = Key(IF UcPS3 THEN 291 ELSE BTN_SELECT, 1)) =>
             IF ~uc_lock_state
             THEN /\ uc_pwm_cmds' = CalibrationSweep
                  /\ uc_servo_positions' = [c \in SERVO_CHANNELS |-> 90]
             ELSE uc_servo_positions' = uc_servo_positions
       /\ (script = "v11" /\ v11_event' = Key(BTN_SELECT, 1)) =>
             IF ~v11_lock_state
             THEN /\ v11_pwm_cmds' = CalibrationSweep
                  /\ v11_servo_positions' = [c \in SERVO_CHANNELS |-> 90]
             ELSE v11_servo_positions' = v11_servo_positions]_vars

\* The unified controller has swept its servos on a calibration press, the
\* focus channel being held.
C17_Witness ==
    /\ script = "unified"
    /\ uc_event = Key(IF UcPS3 THEN 291 ELSE BTN_SELECT, 1)
    /\ ~uc_lock_state /\ uc_hold_state[focus]
    /\ uc_pwm_cmds = CalibrationSweep
    /\ uc_servo_positions = [c \in SERVO_CHANNELS |-> 90]

---------------------------------------------------------------------------
(* Claims about the motion sensors of a PS3 controller *)

\* C16: in unified_controller.py with a PS3 controller, a motion-sensor
\* event (codes 18, 19, 23, 24) changes a servo position only if no stick
\* event (codes 0..3) was received during the preceding second.
C16_MotionOnlyWithoutStick ==
    [][(/\ script = "unified" /\ UcPS3
        /\ uc_event'.type = EV_ABS /\ uc_event'.code \in {18, 19, 23, 24}
        /\ uc_servo_positions' # uc_servo_positions)
       => (uc_last_stick = <<>> \/ uc_now - uc_last_stick[1] > 1)]_vars

---------------------------------------------------------------------------
(* Claims about the hold buttons of unified_controller.py *)

\* C18: a press (value 1) of a hold button inverts the hold flag of the
\* button's channel and leaves the other three flags, lock_state,
\* servo_speed and every servo position as they were; a release (value 0) or
\* a repeat (value 2) of the button changes none of them.  The channel
\* depends on the button alone, so that a second press undoes the first.
C18_HoldPressFrame ==
    [][(/\ script = "unified" /\ uc_event'.type = EV_KEY
        /\ uc_event'.code \in {BTN_SOUTH, BTN_EAST, BTN_WEST, BTN_NORTH})
       => /\ IF uc_event'.value = 1
             THEN LET c == UcHoldChannel(uc_event'.code)
                  IN  /\ uc_hold_state'[c] = ~uc_hold_state[c]
                      /\ \A d \in SERVO_CHANNELS \ {c} :
                             uc_hold_state'[d] = uc_hold_state[d]
             ELSE uc_hold_state' = uc_hold_state
          /\ uc_lock_state' = uc_lock_state
          /\ uc_servo_speed' = uc_servo_speed
          /\ uc_servo_positions' = uc_servo_positions
          /\ uc_last_activity' = uc_last_activity
          /\ uc_pwm_cmds' = <<>>]_vars

\* A press of the button of channel 2 has released that channel while
\* channel 1 stays held, the lock being on and the focus channel off centre.
C18_Witness ==
    /\ script = "unified"
    /\ uc_event = Key(BTN_WEST, 1)
    /\ uc_hold_state = [c \in SERVO_CHANNELS |-> c = 1]
    /\ uc_lock_state
    /\ uc_servo_positions[focus] = 180

---------------------------------------------------------------------------
(* Claims about the threads of servo_controller_best.py *)

\* C13: with the controller thread and the handler threads interleaved
\* statement by statement, no thread issues a PWM command for a channel or
\* writes its servo_positions entry in a state where hold_state of the
\* channel is true.
C13_NoWriteWhileHeld ==
    [][\A t \in Threads :
          (thr[t].pc \in {"set_pwm", "store"} /\ thr'[t].pc # thr[t].pc)
              => ~best_hold_state[focus]]_vars

---------------------------------------------------------------------------
(* Claims about the 'q' key of servo_controller_best.py *)

\* C20: within one reading loop, a read of the keyboard invokes
\* exit_handler exactly when it reads a 'q' less than 1.0 second after the
\* 'q' read before it; two 'q' 1.0 second or more apart do not invoke it,
\* and neither does the first 'q' after the start.
C20_DoubleQExits ==
    [][LET exits == kbd_pc # "exited" /\ kbd_pc' = "exited"
           readsQ == kbd_now' = kbd_now /\ kbd_key' = "q"
       IN  exits <=> /\ readsQ
                     /\ kbd_prev_q # <<>>
                     /\ kbd_now - kbd_prev_q[1] < TenthsPerSecond]_vars

\* The loop of read_xbox_controller has invoked exit_handler on a second
\* 'q', read 1.9 seconds after the start and so less than a second after
\* the first one.
C20_Witness ==
    /\ script = "best_keys"
    /\ kbd_pc = "exited"
    /\ kbd_key = "q"
    /\ best_q_press_count = 2
    /\ kbd_now = 2 * TenthsPerSecond - 1
    /\ best_last_q_time = kbd_now

---------------------------------------------------------------------------
(* Claims about the way out of servo_controller_best.py *)

\* C21: once a double 'q' has taken a thread through exit_handler, whichever
\* loop read the keys, the process has terminated, and no pwm.set_pwm
\* follows exit_handler's pwm.set_all_pwm(0, 0).
C21_DoubleQEndsProcess ==
    /\ \A t \in ExitThreads : ex_pc[t] = "done" => ex_process = "terminated"
    /\ ~ex_pwm_after

---------------------------------------------------------------------------
(* Claims about servo_controller_alt.py *)

\* C22: after a KeyboardInterrupt in the main loop, the join on the
\* controller thread completes and main returns.
C22_CtrlCExits == [](alt_main = "join" => <>(alt_main = "returned"))

\* C23: an event of a stick axis with value v on a channel that is not
\* locked sets servo_angles of the channel to 90 + v * 90 / 32767 truncated
\* toward zero and clamped to 0 .. 180.
C23_SticksSetAngles ==
    [][(/\ script = "alt" /\ alt_main' = alt_main
        /\ alt_event'.ev_type = "Absolute"
        /\ alt_event'.ev_code \in {"ABS_X", "ABS_Y", "ABS_RX", "ABS_RY"}
        /\ ~alt_servo_locked[AltAxisChannel(alt_event'.ev_code)])
       => \E q \in -90 .. 90 :
             /\ IsTrunc(q, alt_event'.ev_value * 90, 32767)
             /\ alt_servo_angles'[AltAxisChannel(alt_event'.ev_code)]
                    = Max(0, Min(180, 90 + q))]_vars

---------------------------------------------------------------------------
(* Claims about log_event of servo_controller_best.py *)

\* C24: whenever the length of log_data has become a multiple of 10 the
\* file was rewritten with the whole of log_data, from whichever threads
\* log_event is called: once no thread is inside log_event, the file holds
\* the events up to the last multiple of 10 at least, in the order of
\* log_data, and log_data holds every event appended.
C24_FlushEveryTen ==
    (\A t \in Threads : log_pc[t] = "idle") =>
        /\ Len(log_file) >= FlushEvery * (Len(log_data) \div FlushEvery)
        /\ Len(log_file) <= Len(log_data)
        /\ log_file = SubSeq(log_data, 1, Len(log_file))

---------------------------------------------------------------------------
(* Claims about servo_speed of servo_controller_best.py under threads *)

\* C25: servo_speed, as any thread reads it, lies in 0.1 .. 2.0 in every
\* reachable state, a POST of 'speed' with any number being handled beside
\* the bumpers and move_servo.
C25_SpeedInRangeUnderThreads == best_servo_speed \in 1 .. 20

====
